---- MODULE Spec2Model ----
(***************************************************************************)
(* Lock-coupled concurrent red-black tree (include/lock_based_rb_tree.hpp) *)
(* as a state machine.                                                     *)
(*                                                                         *)
(* Memory is an arena of node slots.  Slot NIL is the sentinel the         *)
(* constructor allocates; the other slots are the addresses operator new   *)
(* can return.  Addresses are abstract: the model names the node that      *)
(* carries key k by slot k and the transient node of a duplicate insert    *)
(* by slot Spare, which is one of the address assignments an allocator     *)
(* can produce.  A pointer that outlives the node it pointed to is         *)
(* tracked as dangling whatever is later allocated at that address.        *)
(***************************************************************************)
EXTENDS Integers, FiniteSets, Sequences, TLC

\* ------------------------------------------------------------------ bounds
SeqMaxKey == 5
ConcMaxKey == 3

SeqKeys == 1..SeqMaxKey
ConcKeys == 1..ConcMaxKey
Vals == {1, 2}
ConcVals == {1}

\* ------------------------------------------------------------ memory model
NIL == 0
NULL == -1
Spare == SeqMaxKey + 1
Slots == 1..Spare
Nodes == 0..Spare

RED == "RED"
BLACK == "BLACK"

\* std::optional<V>: the empty set is std::nullopt, {v} holds v
nullopt == {}
Some(v) == {v}

\* std::less<K>
comp(a, b) == a < b

\* ------------------------------------------------------------------ threads
Writers == {"w1", "w2"}
Readers == {"r1"}
Lookers == Readers \cup {"r2"}
Validator == "v"
\* util::printer's worker thread and the thread that owns the printer
printer_thread_ == "p"
MainThread == "m"
Threads == Writers \cup Lookers \cup {Validator} \cup {printer_thread_, MainThread}
NoThread == "none"

VARIABLES
  tree,           \* [root, alive, key, val, color, parent, left, right]
  rw,             \* per-node std::shared_mutex: [sh: shared holders, ex: exclusive holder]
  writers_mutex,  \* the thread that holds writers_mutex, or NoThread
  pc,             \* where each thread is in the call it is making
  loc,            \* each thread's local variables
  ref,            \* reference map fed the operations in writer-mutex order
  ret             \* what the last completed sequential call returned

vars == <<tree, rw, writers_mutex, pc, loc, ref, ret>>

\* Content of a slot that holds no node
FreeSlot(T, n) ==
  [T EXCEPT !.alive[n] = FALSE, !.key[n] = 0, !.val[n] = 0, !.color[n] = RED,
            !.parent[n] = NULL, !.left[n] = NULL, !.right[n] = NULL]

\* RBTree(): NIL = new NodeT(K{}, V{}, BLACK); root = NIL
EmptyTree ==
  [root   |-> NIL,
   alive  |-> [n \in Nodes |-> n = NIL],
   key    |-> [n \in Nodes |-> 0],
   val    |-> [n \in Nodes |-> 0],
   color  |-> [n \in Nodes |-> IF n = NIL THEN BLACK ELSE RED],
   parent |-> [n \in Nodes |-> NULL],
   left   |-> [n \in Nodes |-> NULL],
   right  |-> [n \in Nodes |-> NULL]]

\* operator new: the address of the node about to be constructed
NewNode(T, k) == IF T.alive[k] THEN Spare ELSE k

\* NodeT *z = new NodeT(k, v); z->left = z->right = z->parent = NIL;
Construct(T, z, k, v) ==
  [T EXCEPT !.alive[z] = TRUE, !.key[z] = k, !.val[z] = v, !.color[z] = RED,
            !.parent[z] = NIL, !.left[z] = NIL, !.right[z] = NIL]

\* ------------------------------------------------------------ field writes
SetRoot(T, n) == [T EXCEPT !.root = n]
SetColor(T, n, c) == [T EXCEPT !.color[n] = c]
SetParent(T, n, m) == [T EXCEPT !.parent[n] = m]
SetLeft(T, n, m) == [T EXCEPT !.left[n] = m]
SetRight(T, n, m) == [T EXCEPT !.right[n] = m]
SetVal(T, n, v) == [T EXCEPT !.val[n] = v]

\* ---------------------------------------------------------------- rotations
\* left_rotate step 1: x->right = y->left; if (y->left != NIL) y->left->parent = x;
lr_down(T, x, y) ==
  IF T.left[y] # NIL
  THEN SetParent(SetRight(T, x, T.left[y]), T.left[y], x)
  ELSE SetRight(T, x, T.left[y])

\* if (x->parent == NIL) root = y; else if (x == x->parent->left) ... = y;
lr_slot(T, x, y) ==
  IF T.parent[x] = NIL THEN SetRoot(T, y)
  ELSE IF x = T.left[T.parent[x]] THEN SetLeft(T, T.parent[x], y)
  ELSE SetRight(T, T.parent[x], y)

\* left_rotate step 2: y->parent = x->parent; and the slot that held x
lr_link(T, x, y) == lr_slot(SetParent(T, y, T.parent[x]), x, y)

\* a left_rotate that leaves x->parent as it was
lr_top_no_parent(T, x, y) == SetLeft(T, y, x)

\* left_rotate step 3: y->left = x; x->parent = y;
lr_top(T, x, y) == SetParent(SetLeft(T, y, x), x, y)

left_rotate(T, x) ==
  LET y == T.right[x] IN lr_top(lr_link(lr_down(T, x, y), x, y), x, y)

\* a right_rotate whose step 1 leaves y->left null
rr_down_null(T, y, x) == SetLeft(T, y, NULL)

\* right_rotate step 1: y->left = x->right; if (x->right != NIL) x->right->parent = y;
rr_down(T, y, x) ==
  IF T.right[x] # NIL
  THEN SetParent(SetLeft(T, y, T.right[x]), T.right[x], y)
  ELSE SetLeft(T, y, T.right[x])

\* if (y->parent == NIL) root = x; else if (y == y->parent->right) ... = x;
rr_slot(T, y, x) ==
  IF T.parent[y] = NIL THEN SetRoot(T, x)
  ELSE IF y = T.right[T.parent[y]] THEN SetRight(T, T.parent[y], x)
  ELSE SetLeft(T, T.parent[y], x)

\* right_rotate step 2: x->parent = y->parent; and the slot that held y
rr_link(T, y, x) == rr_slot(SetParent(T, x, T.parent[y]), y, x)

\* right_rotate step 3: x->right = y; y->parent = x;
rr_top(T, y, x) == SetParent(SetRight(T, x, y), y, x)

right_rotate(T, y) ==
  LET x == T.left[y] IN rr_top(rr_link(rr_down(T, y, x), y, x), y, x)

\* ------------------------------------------------------------- insert_fixup
\* while (z->parent->color == RED)
insert_fixup_cond(T, z) == T.color[T.parent[z]] = RED

\* Case 1: z->parent->color = BLACK; y->color = BLACK;
\* z->parent->parent->color = RED; z = z->parent->parent;
fixup_case1(T, z, y) ==
  [T |-> SetColor(SetColor(SetColor(T, T.parent[z], BLACK), y, BLACK),
                  T.parent[T.parent[z]], RED),
   z |-> T.parent[T.parent[z]]]

\* Case 2, parent a left child: if (z == z->parent->right) { z = z->parent; left_rotate(z); }
fixup_case2_left(T, z) ==
  IF z = T.right[T.parent[z]]
  THEN [T |-> left_rotate(T, T.parent[z]), z |-> T.parent[z]]
  ELSE [T |-> T, z |-> z]

\* Case 3, parent a left child: recolor parent and grand-parent, right_rotate(gp)
fixup_case3_left(T, z) ==
  right_rotate(SetColor(SetColor(T, T.parent[z], BLACK), T.parent[T.parent[z]], RED),
               T.parent[T.parent[z]])

fixup_case23_left(r) == [T |-> fixup_case3_left(r.T, r.z), z |-> r.z]

fixup_case2_right(T, z) ==
  IF z = T.left[T.parent[z]]
  THEN [T |-> right_rotate(T, T.parent[z]), z |-> T.parent[z]]
  ELSE [T |-> T, z |-> z]

fixup_case3_right(T, z) ==
  left_rotate(SetColor(SetColor(T, T.parent[z], BLACK), T.parent[T.parent[z]], RED),
              T.parent[T.parent[z]])

fixup_case23_right(r) == [T |-> fixup_case3_right(r.T, r.z), z |-> r.z]

\* one iteration of the while loop: the tree and the new z
insert_fixup_iter(T, z) ==
  IF T.parent[z] = T.left[T.parent[T.parent[z]]]
  THEN IF T.color[T.right[T.parent[T.parent[z]]]] = RED
       THEN fixup_case1(T, z, T.right[T.parent[T.parent[z]]])
       ELSE fixup_case23_left(fixup_case2_left(T, z))
  ELSE IF T.color[T.left[T.parent[T.parent[z]]]] = RED
       THEN fixup_case1(T, z, T.left[T.parent[T.parent[z]]])
       ELSE fixup_case23_right(fixup_case2_right(T, z))

\* root->color = BLACK, after the loop
insert_fixup_end(T) == SetColor(T, T.root, BLACK)

RECURSIVE insert_fixup(_, _)
insert_fixup(T, z) ==
  IF insert_fixup_cond(T, z)
  THEN insert_fixup(insert_fixup_iter(T, z).T, insert_fixup_iter(T, z).z)
  ELSE insert_fixup_end(T)

\* ------------------------------------------------------------------- insert
\* One test of the descent loop at node x: "left", "right" or "dup"
Direction(T, x, k) ==
  IF comp(k, T.key[x]) THEN "left"
  ELSE IF comp(T.key[x], k) THEN "right"
  ELSE "dup"

Child(T, x, dir) == IF dir = "left" THEN T.left[x] ELSE T.right[x]

\* a descent that goes right at an equal key
RECURSIVE descend_no_dup(_, _, _, _)
descend_no_dup(T, x, y, k) ==
  IF x = NIL THEN [x |-> x, y |-> y, dup |-> FALSE]
  ELSE descend_no_dup(T, IF comp(k, T.key[x]) THEN T.left[x] ELSE T.right[x], x, k)

\* while (x != NIL) { y = x; ... x = next; }: the x and y the loop ends with;
\* dup says that it ended at an equal key
RECURSIVE descend(_, _, _, _)
descend(T, x, y, k) ==
  IF x = NIL THEN [x |-> x, y |-> y, dup |-> FALSE]
  ELSE IF Direction(T, x, k) = "dup" THEN [x |-> x, y |-> x, dup |-> TRUE]
  ELSE descend(T, Child(T, x, Direction(T, x, k)), x, k)

\* the duplicate branch without its write to x->val
overwrite_dropped(T, x, z, v) == FreeSlot(T, z)

\* the duplicate branch without its delete z
overwrite_leaked(T, x, z, v) == SetVal(T, x, v)

\* x->val = v; delete z;
overwrite(T, x, z, v) == FreeSlot(SetVal(T, x, v), z)

\* an attach without the empty-tree case
attach_slot_no_root(T, z, y) ==
  IF comp(T.key[z], T.key[y]) THEN SetLeft(T, y, z)
  ELSE SetRight(T, y, z)

\* root = z or y->left = z or y->right = z
attach_slot(T, z, y) ==
  IF y = NIL THEN SetRoot(T, z)
  ELSE IF comp(T.key[z], T.key[y]) THEN SetLeft(T, y, z)
  ELSE SetRight(T, y, z)

\* z->parent = y; and the slot
attach(T, z, y) == attach_slot(SetParent(T, z, y), z, y)

\* the rest of insert once z is constructed and the descent has ended
insert_at(T, z, v, d) ==
  IF d.dup THEN overwrite(T, d.x, z, v)
  ELSE insert_fixup(attach(T, z, d.y), z)

insert_node(T, z, k, v) == insert_at(T, z, v, descend(T, T.root, NIL, k))

insert(T, k, v) == insert_node(Construct(T, NewNode(T, k), k, v), NewNode(T, k), k, v)

\* -------------------------------------------------------------------- erase
transplant_slot(T, u, v) ==
  IF T.parent[u] = NIL THEN SetRoot(T, v)
  ELSE IF u = T.left[T.parent[u]] THEN SetLeft(T, T.parent[u], v)
  ELSE SetRight(T, T.parent[u], v)

\* the slot, then v->parent = u->parent;
transplant_parent(T, u, v) == SetParent(T, v, T.parent[u])

transplant(T, u, v) == transplant_parent(transplant_slot(T, u, v), u, v)

RECURSIVE minimum(_, _)
minimum(T, x) == IF T.left[x] # NIL THEN minimum(T, T.left[x]) ELSE x

\* erase without its search loop: z stays where it started
erase_search_skipped(T, z, k) == z

\* while (z != NIL && k != z->key) z = comp(k, z->key) ? z->left : z->right;
RECURSIVE erase_search(_, _, _)
erase_search(T, z, k) ==
  IF z # NIL /\ k # T.key[z]
  THEN erase_search(T, IF comp(k, T.key[z]) THEN T.left[z] ELSE T.right[z], k)
  ELSE z

\* y->right = z->right; y->right->parent = y;
splice_take_right(T, z, y) == SetParent(SetRight(T, y, T.right[z]), T.right[z], y)

\* the successor case without its x->parent = y
splice_successor_no_parent(T, z, y) ==
  IF T.parent[y] = z THEN T
  ELSE splice_take_right(transplant(T, y, T.right[y]), z, y)

\* if (y->parent == z) x->parent = y; else { transplant(y, y->right); ... }
splice_successor(T, z, y) ==
  IF T.parent[y] = z THEN SetParent(T, T.right[y], y)
  ELSE splice_take_right(transplant(T, y, T.right[y]), z, y)

\* y->left = z->left; y->left->parent = y; y->color = z->color;
splice_take_left(T, z, y) ==
  SetColor(SetParent(SetLeft(T, y, T.left[z]), T.left[z], y), y, T.color[z])

\* 3-B: z has two children and y is minimum(z->right)
splice_two(T, z, y) ==
  [T |-> splice_take_left(transplant(splice_successor(T, z, y), z, y), z, y),
   x |-> T.right[y],
   y_original |-> T.color[y]]

\* step 3 of erase: unlink z; the tree, x and y_original
splice(T, z) ==
  IF T.left[z] = NIL
  THEN [T |-> transplant(T, z, T.right[z]), x |-> T.right[z],
        y_original |-> T.color[z]]
  ELSE IF T.right[z] = NIL
  THEN [T |-> transplant(T, z, T.left[z]), x |-> T.left[z],
        y_original |-> T.color[z]]
  ELSE splice_two(T, z, minimum(T, T.right[z]))

\* while (x != root && x->color == BLACK)
delete_fixup_cond(T, x) == x # T.root /\ T.color[x] = BLACK

\* x a left child.  Case 1: if (w->color == RED) { recolor; left_rotate(x->parent); }
del_case1_left(T, x, w) ==
  IF T.color[w] = RED
  THEN left_rotate(SetColor(SetColor(T, w, BLACK), T.parent[x], RED), T.parent[x])
  ELSE T

\* Case 3: if (w->right->color == BLACK) { recolor; right_rotate(w); }
del_case3_left(T, x, w) ==
  IF T.color[T.right[w]] = BLACK
  THEN right_rotate(SetColor(SetColor(T, T.left[w], BLACK), w, RED), w)
  ELSE T

\* Case 4: w->color = x->parent->color; x->parent->color = BLACK;
\* w->right->color = BLACK; left_rotate(x->parent);
del_case4_left(T, x, w) ==
  left_rotate(SetColor(SetColor(SetColor(T, w, T.color[T.parent[x]]),
                                T.parent[x], BLACK),
                       T.right[w], BLACK),
              T.parent[x])

\* x = root; after case 4
del_done(T) == [T |-> T, x |-> T.root]

\* cases 3 and 4; w = x->parent->right is read again after the rotation
del_case34_left(T, x) == del_done(del_case4_left(T, x, T.right[T.parent[x]]))

\* Case 2 or cases 3 and 4, with w = x->parent->right as it is after case 1
del_case234_left(T, x, w) ==
  IF T.color[T.left[w]] = BLACK /\ T.color[T.right[w]] = BLACK
  THEN [T |-> SetColor(T, w, RED), x |-> T.parent[x]]
  ELSE del_case34_left(del_case3_left(T, x, w), x)

del_after1_left(T, x) == del_case234_left(T, x, T.right[T.parent[x]])

\* x a right child: the mirror image
del_case1_right(T, x, w) ==
  IF T.color[w] = RED
  THEN right_rotate(SetColor(SetColor(T, w, BLACK), T.parent[x], RED), T.parent[x])
  ELSE T

del_case3_right(T, x, w) ==
  IF T.color[T.left[w]] = BLACK
  THEN left_rotate(SetColor(SetColor(T, T.right[w], BLACK), w, RED), w)
  ELSE T

del_case4_right(T, x, w) ==
  right_rotate(SetColor(SetColor(SetColor(T, w, T.color[T.parent[x]]),
                                 T.parent[x], BLACK),
                        T.left[w], BLACK),
               T.parent[x])

del_case34_right(T, x) == del_done(del_case4_right(T, x, T.left[T.parent[x]]))

del_case234_right(T, x, w) ==
  IF T.color[T.right[w]] = BLACK /\ T.color[T.left[w]] = BLACK
  THEN [T |-> SetColor(T, w, RED), x |-> T.parent[x]]
  ELSE del_case34_right(del_case3_right(T, x, w), x)

del_after1_right(T, x) == del_case234_right(T, x, T.left[T.parent[x]])

\* one iteration of the while loop: the tree and the new x
delete_fixup_iter(T, x) ==
  IF x = T.left[T.parent[x]]
  THEN del_after1_left(del_case1_left(T, x, T.right[T.parent[x]]), x)
  ELSE del_after1_right(del_case1_right(T, x, T.left[T.parent[x]]), x)

\* delete_fixup without its last statement: x keeps its color
delete_fixup_end_skipped(T, x) == T

\* a delete_fixup that ends with x->color = RED
delete_fixup_end_red(T, x) == SetColor(T, x, RED)

\* x->color = BLACK, after the loop
delete_fixup_end(T, x) == SetColor(T, x, BLACK)

RECURSIVE delete_fixup(_, _)
delete_fixup(T, x) ==
  IF delete_fixup_cond(T, x)
  THEN delete_fixup(delete_fixup_iter(T, x).T, delete_fixup_iter(T, x).x)
  ELSE delete_fixup_end(T, x)

\* delete z; if (y_original == BLACK) delete_fixup(x);
erase_finish(s, z) ==
  IF s.y_original = BLACK THEN delete_fixup(FreeSlot(s.T, z), s.x)
  ELSE FreeSlot(s.T, z)

\* an erase that unlinks the node and still returns false
erase_at_found_lost(T, z) ==
  IF z = NIL THEN [T |-> T, found |-> FALSE]
  ELSE [T |-> erase_finish(splice(T, z), z), found |-> FALSE]

\* an erase whose early return gives true
erase_at_true(T, z) ==
  IF z = NIL THEN [T |-> T, found |-> TRUE]
  ELSE [T |-> erase_finish(splice(T, z), z), found |-> TRUE]

erase_at(T, z) ==
  IF z = NIL THEN [T |-> T, found |-> FALSE]
  ELSE [T |-> erase_finish(splice(T, z), z), found |-> TRUE]

\* erase(k): the tree afterwards and the bool returned
erase(T, k) == erase_at(T, erase_search(T, T.root, k))

\* ------------------------------------------------------------------- lookup
RECURSIVE lookup_from(_, _, _)
lookup_from(T, n, k) ==
  IF n = NIL THEN nullopt
  ELSE IF Direction(T, n, k) = "dup" THEN Some(T.val[n])
  ELSE lookup_from(T, Child(T, n, Direction(T, n, k)), k)

lookup(T, k) == lookup_from(T, T.root, k)

\* ----------------------------------------------------------------- validate
\* validate_rec(n, blacks, target): the bool returned and target afterwards
RECURSIVE validate_rec(_, _, _, _)
validate_rec(T, n, blacks, target) ==
  IF n = NIL
  THEN LET t == IF target = -1 THEN blacks ELSE target
       IN [ok |-> blacks = t, target |-> t]
  ELSE LET b == IF T.color[n] = BLACK THEN blacks + 1 ELSE blacks IN
       IF T.color[n] = RED
          /\ (T.color[T.left[n]] = RED \/ T.color[T.right[n]] = RED)
       THEN [ok |-> FALSE, target |-> target]
       ELSE IF T.left[n] # NIL /\ comp(T.key[n], T.key[T.left[n]])
       THEN [ok |-> FALSE, target |-> target]
       ELSE IF T.right[n] # NIL /\ comp(T.key[T.right[n]], T.key[n])
       THEN [ok |-> FALSE, target |-> target]
       ELSE LET l == validate_rec(T, T.left[n], b, target) IN
            IF l.ok THEN validate_rec(T, T.right[n], b, l.target) ELSE l

\* a validate that starts with bh = 0 instead of -1
validate_bh_zero(T) == validate_rec(T, T.root, 0, 0).ok

validate(T) == validate_rec(T, T.root, 0, -1).ok

\* ------------------------------------------------- the red-black invariants
\* Stated on the links themselves, independently of validate_rec.
RECURSIVE InOrder(_, _)
InOrder(T, n) ==
  IF n = NIL THEN <<>>
  ELSE InOrder(T, T.left[n]) \o <<T.key[n]>> \o InOrder(T, T.right[n])

\* BLACK counts of the paths from n down to the sentinel
RECURSIVE PathBlacks(_, _)
PathBlacks(T, n) ==
  IF n = NIL THEN {0}
  ELSE {c + (IF T.color[n] = BLACK THEN 1 ELSE 0) :
          c \in PathBlacks(T, T.left[n]) \cup PathBlacks(T, T.right[n])}

RECURSIVE Subtree(_, _)
Subtree(T, n) ==
  IF n = NIL THEN {}
  ELSE {n} \cup Subtree(T, T.left[n]) \cup Subtree(T, T.right[n])

Reachable(T) == Subtree(T, T.root)

StrictlyIncreasing(s) == \A i \in 1..(Len(s) - 1) : s[i] < s[i + 1]

RootBlack(T) == T.color[T.root] = BLACK
SentinelBlack(T) == T.color[NIL] = BLACK
NoRedRed(T) ==
  \A n \in Reachable(T) :
    T.color[n] = RED => T.color[T.left[n]] = BLACK /\ T.color[T.right[n]] = BLACK
BlackHeightEqual(T) == Cardinality(PathBlacks(T, T.root)) = 1
Ordered(T) == StrictlyIncreasing(InOrder(T, T.root))

RBInvariants(T) ==
  /\ \A n \in Reachable(T) : T.color[n] \in {RED, BLACK}
  /\ RootBlack(T)
  /\ SentinelBlack(T)
  /\ NoRedRed(T)
  /\ BlackHeightEqual(T)
  /\ Ordered(T)

\* The key -> value content of the tree, read off the links
Content(T) ==
  [k \in SeqKeys |->
     {T.val[n] : n \in {m \in Reachable(T) : T.key[m] = k}}]

\* ============================================================ sequential use
\* One thread calls insert, erase, lookup and validate one after another; no
\* other thread exists, so every lock is free when it is asked for.
NoRet == [op |-> "none", b |-> FALSE, v |-> nullopt]

Unlocked == [sh |-> {}, ex |-> NoThread]

Loc0 ==
  [k |-> 0, v |-> 0, z |-> NIL, x |-> NIL, y |-> NIL, next |-> NIL,
   n |-> NIL, child |-> NIL, y_original |-> BLACK, want |-> FALSE,
   curr |-> NIL, nodes |-> <<>>, locks_ |-> <<>>, queue_ |-> <<>>]

\* The tree when the calls under study begin: just constructed, or holding
\* what earlier calls (insert of 1, 2, 3 and 4, then erase of 4) have left,
\* which is three BLACK nodes.
Populated ==
  erase(insert(insert(insert(insert(EmptyTree, 1, 1), 2, 1), 3, 1), 4, 1), 4).T

Init ==
  /\ tree \in {EmptyTree, Populated}
  /\ rw = [n \in Nodes |-> Unlocked]
  /\ writers_mutex = NoThread
  /\ pc = [t \in Threads |-> "idle"]
  /\ loc = [t \in Threads |-> Loc0]
  /\ ref = Content(tree)
  /\ ret = NoRet

concVars == <<rw, writers_mutex, pc, loc>>

SeqInsert(k, v) ==
  /\ tree' = insert(tree, k, v)
  /\ ref' = [ref EXCEPT ![k] = Some(v)]
  /\ ret' = [op |-> "insert", b |-> FALSE, v |-> nullopt]
  /\ UNCHANGED concVars

SeqErase(k) ==
  /\ tree' = erase(tree, k).T
  /\ ref' = [ref EXCEPT ![k] = nullopt]
  /\ ret' = [op |-> "erase", b |-> erase(tree, k).found, v |-> nullopt]
  /\ UNCHANGED concVars

SeqLookup(k) ==
  /\ ret' = [op |-> "lookup", b |-> FALSE, v |-> lookup(tree, k)]
  /\ UNCHANGED <<tree, ref>>
  /\ UNCHANGED concVars

SeqValidate ==
  /\ ret' = [op |-> "validate", b |-> validate(tree), v |-> nullopt]
  /\ UNCHANGED <<tree, ref>>
  /\ UNCHANGED concVars

SeqNext ==
  \/ \E k \in SeqKeys, v \in Vals : SeqInsert(k, v)
  \/ \E k \in SeqKeys : SeqErase(k)
  \/ \E k \in SeqKeys : SeqLookup(k)
  \/ SeqValidate

SeqSpec == Init /\ [][SeqNext]_vars

\* ============================================================ concurrent use
\* Writers call insert and erase, readers call lookup, the validator calls
\* validate() under writers_mutex.  A thread waiting for writers_mutex has
\* not started its call: taking the mutex is the first step of the call.
\*
\* pc values
\*   lookup : l_lock_root, l_loop, l_lock_child, l_unlock
\*   insert : i_lock_root, i_loop, i_lock_next, i_unlock_x, i_upgrade,
\*            i_unique, i_attach, i_fixup, i_dup_upgrade, i_dup_unique,
\*            i_dup_write
\*   erase  : e_absent, e_splice, e_delete, e_fixup, e_return
\*   validator : v_validate
\*   ub     : the thread's next access goes through a pointer to a node that
\*            has been deleted (undefined behaviour)
\*   hung   : a call on a destroyed std::shared_mutex that never returns

\* std::shared_mutex::lock_shared / lock succeed only when these hold
\* a shared lock that waits for the other shared holders too
CanShareAlone(n) == rw[n].ex = NoThread /\ rw[n].sh = {}

\* a shared lock granted whoever holds the mutex
CanShareAlways(n) == TRUE

CanShare(n) == rw[n].ex = NoThread

CanExclusive(n) == rw[n].ex = NoThread /\ rw[n].sh = {}

\* a guard that does not wait for the mutex
mutex_ignored(m) == TRUE

\* std::lock_guard<std::mutex> returns from its constructor only when no
\* thread holds the mutex
mutex_free(m) == m = NoThread

lock_shared(L, n, t) == [L EXCEPT ![n].sh = @ \cup {t}]
unlock_shared(L, n, t) == [L EXCEPT ![n].sh = @ \ {t}]
lock_unique(L, n, t) == [L EXCEPT ![n].ex = t]
unlock_unique(L, n, t) == [L EXCEPT ![n].ex = NoThread]

SetLoc(t, l) == loc' = [loc EXCEPT ![t] = l]
Goto(t, p) == pc' = [pc EXCEPT ![t] = p]

\* ------------------------------------------------------------------ lookup
\* const NodeT *n = root;
LookupCall(t, k) ==
  /\ pc[t] = "idle"
  /\ SetLoc(t, [Loc0 EXCEPT !.k = k, !.n = tree.root])
  /\ Goto(t, "l_lock_root")
  /\ UNCHANGED <<tree, rw, writers_mutex, ref, ret>>

\* std::shared_lock lock_cur(n->rw);
LookupLockRoot(t) ==
  /\ pc[t] = "l_lock_root"
  /\ CanShare(loc[t].n)
  /\ rw' = lock_shared(rw, loc[t].n, t)
  /\ Goto(t, "l_loop")
  /\ UNCHANGED <<tree, writers_mutex, loc, ref, ret>>

\* while (n != NIL) { compare; child = n->left or n->right } or a return,
\* which releases lock_cur
LookupLoop(t) ==
  /\ pc[t] = "l_loop"
  /\ LET n == loc[t].n IN
     IF n = NIL \/ Direction(tree, n, loc[t].k) = "dup"
     THEN /\ rw' = unlock_shared(rw, n, t)
          /\ SetLoc(t, Loc0)
          /\ Goto(t, "idle")
     ELSE /\ SetLoc(t, [loc[t] EXCEPT
                          !.child = Child(tree, n, Direction(tree, n, loc[t].k))])
          /\ Goto(t, "l_lock_child")
          /\ UNCHANGED rw
  /\ UNCHANGED <<tree, writers_mutex, ref, ret>>

\* a descent that releases the current node before it locks the child
LookupLockChildAfterUnlock(t) ==
  /\ pc[t] = "l_lock_child"
  /\ CanShare(loc[t].child)
  /\ rw' = lock_shared(unlock_shared(rw, loc[t].n, t), loc[t].child, t)
  /\ Goto(t, "l_unlock")
  /\ UNCHANGED <<tree, writers_mutex, loc, ref, ret>>

\* std::shared_lock lock_child(child->rw);
LookupLockChild(t) ==
  /\ pc[t] = "l_lock_child"
  /\ CanShare(loc[t].child)
  /\ rw' = lock_shared(rw, loc[t].child, t)
  /\ Goto(t, "l_unlock")
  /\ UNCHANGED <<tree, writers_mutex, loc, ref, ret>>

\* lock_cur.unlock(); n = child; lock_cur = std::move(lock_child);
\* a lookup that marks the node it leaves
LookupUnlockMarking(t) ==
  /\ pc[t] = "l_unlock"
  /\ rw' = unlock_shared(rw, loc[t].n, t)
  /\ tree' = SetColor(tree, loc[t].n, RED)
  /\ SetLoc(t, [loc[t] EXCEPT !.n = loc[t].child, !.child = NIL])
  /\ Goto(t, "l_loop")
  /\ UNCHANGED <<writers_mutex, ref, ret>>

LookupUnlock(t) ==
  /\ pc[t] = "l_unlock"
  /\ rw' = unlock_shared(rw, loc[t].n, t)
  /\ SetLoc(t, [loc[t] EXCEPT !.n = loc[t].child, !.child = NIL])
  /\ Goto(t, "l_loop")
  /\ UNCHANGED <<tree, writers_mutex, ref, ret>>

\* The access through the dangling pointer: the call may return anything
\* (its locks on live nodes are released by the destructors) or never return.
LookupUB(t) ==
  /\ pc[t] = "ub"
  /\ \/ /\ rw' = [n \in Nodes |-> [rw[n] EXCEPT !.sh = @ \ {t}]]
        /\ Goto(t, "idle")
     \/ /\ Goto(t, "hung")
        /\ UNCHANGED rw
  /\ UNCHANGED <<tree, writers_mutex, loc, ref, ret>>

\* ------------------------------------------------------------------ insert
\* writer_guard(writers_mutex); z = new NodeT(k, v); y = NIL; x = root;
InsertCall(t, k, v) ==
  /\ pc[t] = "idle"
  /\ mutex_free(writers_mutex)
  /\ writers_mutex' = t
  /\ LET z == NewNode(tree, k) IN
       /\ tree' = Construct(tree, z, k, v)
       /\ SetLoc(t, [Loc0 EXCEPT !.k = k, !.v = v, !.z = z, !.y = NIL,
                                 !.x = tree.root])
  /\ ref' = [ref EXCEPT ![k] = Some(v)]
  /\ Goto(t, "i_lock_root")
  /\ UNCHANGED <<rw, ret>>

\* UpgradeLock lock_x(x->rw);
InsertLockRoot(t) ==
  /\ pc[t] = "i_lock_root"
  /\ CanShare(loc[t].x)
  /\ rw' = lock_shared(rw, loc[t].x, t)
  /\ Goto(t, "i_loop")
  /\ UNCHANGED <<tree, writers_mutex, loc, ref, ret>>

\* while (x != NIL) { y = x; compare; next = x->left or x->right }
InsertLoop(t) ==
  /\ pc[t] = "i_loop"
  /\ LET x == loc[t].x IN
     IF x = NIL
     THEN /\ Goto(t, "i_upgrade")
          /\ UNCHANGED loc
     ELSE IF Direction(tree, x, loc[t].k) = "dup"
     THEN /\ SetLoc(t, [loc[t] EXCEPT !.y = x])
          /\ Goto(t, "i_dup_upgrade")
     ELSE /\ SetLoc(t, [loc[t] EXCEPT !.y = x,
                          !.next = Child(tree, x, Direction(tree, x, loc[t].k))])
          /\ Goto(t, "i_lock_next")
  /\ UNCHANGED <<tree, rw, writers_mutex, ref, ret>>

\* a descent that releases x before it locks next
InsertLockNextAfterUnlock(t) ==
  /\ pc[t] = "i_lock_next"
  /\ CanShare(loc[t].next)
  /\ rw' = lock_shared(unlock_shared(rw, loc[t].x, t), loc[t].next, t)
  /\ Goto(t, "i_unlock_x")
  /\ UNCHANGED <<tree, writers_mutex, loc, ref, ret>>

\* UpgradeLock lock_next(next->rw);
InsertLockNext(t) ==
  /\ pc[t] = "i_lock_next"
  /\ CanShare(loc[t].next)
  /\ rw' = lock_shared(rw, loc[t].next, t)
  /\ Goto(t, "i_unlock_x")
  /\ UNCHANGED <<tree, writers_mutex, loc, ref, ret>>

\* lock_x.shared.unlock(); x = next; lock_x = std::move(lock_next);
InsertUnlockX(t) ==
  /\ pc[t] = "i_unlock_x"
  /\ rw' = unlock_shared(rw, loc[t].x, t)
  /\ SetLoc(t, [loc[t] EXCEPT !.x = loc[t].next, !.next = NIL])
  /\ Goto(t, "i_loop")
  /\ UNCHANGED <<tree, writers_mutex, ref, ret>>

\* an upgrade() that lets go of writers_mutex too
UpgradeUnlockDropsMutex(t) ==
  /\ pc[t] \in {"i_upgrade", "i_dup_upgrade"}
  /\ rw' = unlock_shared(rw, loc[t].x, t)
  /\ writers_mutex' = NoThread
  /\ Goto(t, IF pc[t] = "i_upgrade" THEN "i_unique" ELSE "i_dup_unique")
  /\ UNCHANGED <<tree, loc, ref, ret>>

\* UpgradeLock::upgrade(), first statement: shared.unlock();
\* lock_x guards the node x the descent stopped at
UpgradeUnlock(t) ==
  /\ pc[t] \in {"i_upgrade", "i_dup_upgrade"}
  /\ rw' = unlock_shared(rw, loc[t].x, t)
  /\ Goto(t, IF pc[t] = "i_upgrade" THEN "i_unique" ELSE "i_dup_unique")
  /\ UNCHANGED <<tree, writers_mutex, loc, ref, ret>>

\* UpgradeLock::upgrade(), second statement: unique.lock();
UpgradeLockUnique(t) ==
  /\ pc[t] \in {"i_unique", "i_dup_unique"}
  /\ CanExclusive(loc[t].x)
  /\ rw' = lock_unique(rw, loc[t].x, t)
  /\ Goto(t, IF pc[t] = "i_unique" THEN "i_attach" ELSE "i_dup_write")
  /\ UNCHANGED <<tree, writers_mutex, loc, ref, ret>>

\* a duplicate-key return that leaves lock_x locked
InsertDupKeepsLock(t) ==
  /\ pc[t] = "i_dup_write"
  /\ tree' = overwrite(tree, loc[t].x, loc[t].z, loc[t].v)
  /\ writers_mutex' = NoThread
  /\ SetLoc(t, Loc0)
  /\ Goto(t, "idle")
  /\ UNCHANGED <<rw, ref, ret>>

\* x->val = v; delete z; return;  (lock_x and writer_guard are released)
InsertDup(t) ==
  /\ pc[t] = "i_dup_write"
  /\ tree' = overwrite(tree, loc[t].x, loc[t].z, loc[t].v)
  /\ rw' = unlock_unique(rw, loc[t].x, t)
  /\ writers_mutex' = NoThread
  /\ SetLoc(t, Loc0)
  /\ Goto(t, "idle")
  /\ UNCHANGED <<ref, ret>>

\* z->parent = y; root = z or y->left = z or y->right = z;
InsertAttach(t) ==
  /\ pc[t] = "i_attach"
  /\ tree' = attach(tree, loc[t].z, loc[t].y)
  /\ Goto(t, "i_fixup")
  /\ UNCHANGED <<rw, writers_mutex, loc, ref, ret>>

\* one iteration of insert_fixup's loop
InsertFixupIter(t) ==
  /\ pc[t] = "i_fixup"
  /\ insert_fixup_cond(tree, loc[t].z)
  /\ LET r == insert_fixup_iter(tree, loc[t].z) IN
       /\ tree' = r.T
       /\ SetLoc(t, [loc[t] EXCEPT !.z = r.z])
  /\ UNCHANGED <<rw, writers_mutex, pc, ref, ret>>

\* root->color = BLACK; and insert returns (lock_x and writer_guard released)
InsertReturn(t) ==
  /\ pc[t] = "i_fixup"
  /\ ~insert_fixup_cond(tree, loc[t].z)
  /\ tree' = insert_fixup_end(tree)
  /\ rw' = unlock_unique(rw, loc[t].x, t)
  /\ writers_mutex' = NoThread
  /\ SetLoc(t, Loc0)
  /\ Goto(t, "idle")
  /\ UNCHANGED <<ref, ret>>

\* ------------------------------------------------------------------- erase
\* A reader's pointers to nodes: n once read, child once read
Pointers(t) ==
  IF pc[t] \in {"l_lock_root", "l_loop"} THEN {loc[t].n}
  ELSE IF pc[t] \in {"l_lock_child", "l_unlock"} THEN {loc[t].n, loc[t].child}
  ELSE {}

\* writer_guard(writers_mutex); z = root; while (...) z = ...;
EraseCall(t, k) ==
  /\ pc[t] = "idle"
  /\ mutex_free(writers_mutex)
  /\ writers_mutex' = t
  /\ LET z == erase_search(tree, tree.root, k) IN
       /\ SetLoc(t, [Loc0 EXCEPT !.k = k, !.z = z, !.want = (ref[k] # nullopt)])
       /\ Goto(t, IF z = NIL THEN "e_absent" ELSE "e_splice")
  /\ ref' = [ref EXCEPT ![k] = nullopt]
  /\ UNCHANGED <<tree, rw, ret>>

\* if (z == NIL) return false;
EraseAbsent(t) ==
  /\ pc[t] = "e_absent"
  /\ writers_mutex' = NoThread
  /\ SetLoc(t, Loc0)
  /\ Goto(t, "idle")
  /\ UNCHANGED <<tree, rw, ref, ret>>

\* step 3: y, x, y_original, the transplants
EraseSplice(t) ==
  /\ pc[t] = "e_splice"
  /\ LET s == splice(tree, loc[t].z) IN
       /\ tree' = s.T
       /\ SetLoc(t, [loc[t] EXCEPT !.x = s.x, !.y_original = s.y_original])
  /\ Goto(t, "e_delete")
  /\ UNCHANGED <<rw, writers_mutex, ref, ret>>

\* delete z;  The node's shared_mutex is destroyed with it, whoever holds it;
\* every pointer to z that a reader still has is dangling from here on.
EraseDelete(t) ==
  /\ pc[t] = "e_delete"
  /\ LET z == loc[t].z
         stale == {u \in Lookers : z \in Pointers(u)}
     IN /\ tree' = FreeSlot(tree, z)
        /\ rw' = [rw EXCEPT ![z] = Unlocked]
        /\ pc' = [u \in Threads |->
                    IF u = t THEN (IF loc[t].y_original = BLACK
                                   THEN "e_fixup" ELSE "e_return")
                    ELSE IF u \in stale THEN "ub" ELSE pc[u]]
        /\ loc' = [u \in Threads |-> IF u \in stale THEN Loc0 ELSE loc[u]]
  /\ UNCHANGED <<writers_mutex, ref, ret>>

\* one iteration of delete_fixup's loop
EraseFixupIter(t) ==
  /\ pc[t] = "e_fixup"
  /\ delete_fixup_cond(tree, loc[t].x)
  /\ LET r == delete_fixup_iter(tree, loc[t].x) IN
       /\ tree' = r.T
       /\ SetLoc(t, [loc[t] EXCEPT !.x = r.x])
  /\ UNCHANGED <<rw, writers_mutex, pc, ref, ret>>

\* x->color = BLACK; at the end of delete_fixup
EraseFixupEnd(t) ==
  /\ pc[t] = "e_fixup"
  /\ ~delete_fixup_cond(tree, loc[t].x)
  /\ tree' = delete_fixup_end(tree, loc[t].x)
  /\ Goto(t, "e_return")
  /\ UNCHANGED <<rw, writers_mutex, loc, ref, ret>>

\* return true;
EraseReturn(t) ==
  /\ pc[t] = "e_return"
  /\ writers_mutex' = NoThread
  /\ SetLoc(t, Loc0)
  /\ Goto(t, "idle")
  /\ UNCHANGED <<tree, rw, ref, ret>>

\* a validator that calls validate() without taking writers_mutex
ValidateWithoutLock(t) ==
  /\ pc[t] = "idle"
  /\ Goto(t, "v_validate")
  /\ UNCHANGED <<tree, rw, writers_mutex, loc, ref, ret>>

\* --------------------------------------------------------------- validator
\* std::lock_guard<std::mutex> g(tree.writer_mutex());
ValidateLock(t) ==
  /\ pc[t] = "idle"
  /\ mutex_free(writers_mutex)
  /\ writers_mutex' = t
  /\ Goto(t, "v_validate")
  /\ UNCHANGED <<tree, rw, loc, ref, ret>>

\* tree.validate(); and the guard is released
ValidateRun(t) ==
  /\ pc[t] = "v_validate"
  /\ writers_mutex' = NoThread
  /\ Goto(t, "idle")
  /\ UNCHANGED <<tree, rw, loc, ref, ret>>

ReaderStep(t) ==
  \/ \E k \in ConcKeys : LookupCall(t, k)
  \/ LookupLockRoot(t)
  \/ LookupLoop(t)
  \/ LookupLockChild(t)
  \/ LookupUnlock(t)
  \/ LookupUB(t)

WriterStep(t, V) ==
  \/ \E k \in ConcKeys, v \in V : InsertCall(t, k, v)
  \/ InsertLockRoot(t)
  \/ InsertLoop(t)
  \/ InsertLockNext(t)
  \/ InsertUnlockX(t)
  \/ UpgradeUnlock(t)
  \/ UpgradeLockUnique(t)
  \/ InsertDup(t)
  \/ InsertAttach(t)
  \/ InsertFixupIter(t)
  \/ InsertReturn(t)
  \/ \E k \in ConcKeys : EraseCall(t, k)
  \/ EraseAbsent(t)
  \/ EraseSplice(t)
  \/ EraseDelete(t)
  \/ EraseFixupIter(t)
  \/ EraseFixupEnd(t)
  \/ EraseReturn(t)

ValidatorStep(t) ==
  \/ ValidateLock(t)
  \/ ValidateRun(t)

\* Writers, a reader and the validator
Next ==
  \/ \E t \in Readers : ReaderStep(t)
  \/ \E t \in Writers : WriterStep(t, ConcVals)
  \/ ValidatorStep(Validator)

Spec == Init /\ [][Next]_vars

\* Writers alone
WNext == \E t \in Writers : WriterStep(t, Vals)

WSpec == Init /\ [][WNext]_vars

\* ================================================================== claims
\* ------------------------------------------------------------------- C1
\* C1: after every call of a sequential run the tree satisfies the red-black
\* invariants (root BLACK, sentinel BLACK, no RED node with a RED child, equal
\* BLACK count on every root-to-sentinel path, strictly increasing in-order
\* keys) and validate() returns true.
C1_SeqValid ==
  /\ RBInvariants(tree)
  /\ validate(tree)
  /\ (ret.op = "validate" => ret.b)

\* validate() has returned true on a tree that holds every key
C1_Witness ==
  /\ ret.op = "validate"
  /\ ret.b
  /\ Cardinality(Reachable(tree)) = SeqMaxKey

\* ------------------------------------------------------------------- C2
\* C2: in a sequential run lookup(k) returns, for every key k, what a
\* reference map fed the same inserts and erases holds for k: the value of
\* the last insert(k, v) not followed by erase(k), and absent otherwise.
C2_SeqLookupIsMap ==
  /\ \A k \in SeqKeys : lookup(tree, k) = ref[k]
  /\ (ret.op = "lookup" => \E k \in SeqKeys : ret.v = ref[k])

\* a lookup has returned 2 while other keys hold 1 and others are absent
C2_Witness ==
  /\ ret.op = "lookup"
  /\ ret.v = Some(2)
  /\ \E k \in SeqKeys : ref[k] = Some(1)
  /\ \E k \in SeqKeys : ref[k] = nullopt /\ ~tree.alive[k]

\* ------------------------------------------------------------------- C3
\* the thread is inside insert or erase, between taking and releasing
\* writers_mutex
InWriter(t) == pc[t] \notin {"idle", "ub", "hung", "v_validate"}

\* C3: writers are mutually exclusive: at most one thread is inside insert or
\* erase, and it is the thread that holds writers_mutex.
C3_WritersExclusive ==
  \A t \in Writers :
    InWriter(t) =>
      /\ writers_mutex = t
      /\ \A u \in Writers \ {t} : ~InWriter(u)

\* one writer is rebalancing after an attach while the other has not started
C3_Witness ==
  /\ pc["w1"] = "i_fixup"
  /\ pc["w2"] = "idle"
  /\ insert_fixup_cond(tree, loc["w1"].z)

\* ------------------------------------------------------------------- C4
\* C4: whenever the validator holds writers_mutex and calls validate(), no
\* insert or erase is in progress, validate() returns true and the red-black
\* invariants hold, whatever the readers are doing.
C4_ValidatorSeesValid ==
  pc[Validator] = "v_validate" =>
    /\ \A t \in Writers : ~InWriter(t)
    /\ validate(tree)
    /\ RBInvariants(tree)

\* the validator runs on a tree of three nodes while a lookup is descending
C4_Witness ==
  /\ pc[Validator] = "v_validate"
  /\ Cardinality(Reachable(tree)) = ConcMaxKey
  /\ \E r \in Readers : pc[r] = "l_lock_child"

\* ------------------------------------------------------------------- C5
\* C5: once every writer has returned, the content of the tree is that of a
\* sequential map fed the operations in the order they took writers_mutex,
\* validate() returns true, and an erase returns false (true) exactly when the
\* map did not hold (held) its key when it took the mutex.
C5_WritersLinearize ==
  /\ (\A t \in Writers : pc[t] = "idle") =>
        /\ Content(tree) = ref
        /\ validate(tree)
        /\ RBInvariants(tree)
  /\ \A t \in Writers :
        /\ pc[t] = "e_absent" => ~loc[t].want
        /\ pc[t] \in {"e_splice", "e_delete", "e_fixup", "e_return"} => loc[t].want

\* both writers have returned, leaving an overwritten key and an erased key
C5_Witness ==
  /\ \A t \in Writers : pc[t] = "idle"
  /\ ref[1] = Some(2)
  /\ ref[2] = nullopt
  /\ ref[3] = Some(1)
  /\ Cardinality(Reachable(tree)) = 2

\* ------------------------------------------------------------------- C6
\* the step writes the color, parent, left or right field of node n
FieldWritten(n) ==
  /\ tree.alive[n]
  /\ tree'.alive[n]
  /\ \/ tree.color[n] # tree'.color[n]
     \/ tree.parent[n] # tree'.parent[n]
     \/ tree.left[n] # tree'.left[n]
     \/ tree.right[n] # tree'.right[n]

\* C6: no step writes the color, parent, left or right field of a node while
\* a thread holds that node's lock in shared mode.
C6_NoWriteUnderSharedLock ==
  [][\A n \in Nodes : FieldWritten(n) => rw[n].sh = {}]_vars

\* ------------------------------------------------------------------- C7
\* C7: no node is freed while a thread holds its lock or has read a pointer
\* to it that it is about to lock: no lookup ever reaches a deleted node.
C7_NoUseAfterFree == \A t \in Readers : pc[t] \notin {"ub", "hung"}

\* ------------------------------------------------------------------- C8
\* C8: a thread inside UpgradeLock::upgrade() holds the node's lock in shared
\* or in exclusive mode at every moment.
C8_NoUnlockedWindow ==
  \A t \in Writers :
    pc[t] \in {"i_unique", "i_dup_unique"} =>
      \/ t \in rw[loc[t].x].sh
      \/ rw[loc[t].x].ex = t

\* ------------------------------------------------------------------- C9
\* C9: when insert attaches the new node below a real node y, the inserting
\* thread holds y's lock in exclusive mode.
C9_AttachHoldsParent ==
  \A t \in Writers :
    pc[t] = "i_attach" /\ loc[t].y # NIL => rw[loc[t].y].ex = t

\* ------------------------------------------------------------------ C10
\* the thread is inside a call
Unfinished(t) == pc[t] # "idle"

\* the thread's next step is the acquisition of a lock that is not available
Waiting(t) ==
  \/ pc[t] = "l_lock_root" /\ ~CanShare(loc[t].n)
  \/ pc[t] = "l_lock_child" /\ ~CanShare(loc[t].child)
  \/ pc[t] = "i_lock_root" /\ ~CanShare(loc[t].x)
  \/ pc[t] = "i_lock_next" /\ ~CanShare(loc[t].next)
  \/ pc[t] \in {"i_unique", "i_dup_unique"} /\ ~CanExclusive(loc[t].x)

\* C10: no state has a thread waiting for a node's lock while every thread
\* that is inside a call is waiting for a lock or has stopped for ever.
C10_NoDeadlock ==
  ~ /\ \E t \in Threads : Waiting(t)
    /\ \A t \in Threads : Unfinished(t) => Waiting(t) \/ pc[t] = "hung"

\* ------------------------------------------------------------------ C11
\* One writer and the readers.  Scheduling and locks are fair: a thread inside
\* a call whose next step is possible again and again eventually takes it.
\* Nothing obliges a thread to start a call.
LiveWriter == "w1"

LiveThreads == Readers \cup {LiveWriter}

\* the steps of a started lookup
ReaderRun(t) ==
  \/ LookupLockRoot(t)
  \/ LookupLoop(t)
  \/ LookupLockChild(t)
  \/ LookupUnlock(t)
  \/ LookupUB(t)

\* the steps of a started insert or erase
WriterRun(t) ==
  \/ InsertLockRoot(t)
  \/ InsertLoop(t)
  \/ InsertLockNext(t)
  \/ InsertUnlockX(t)
  \/ UpgradeUnlock(t)
  \/ UpgradeLockUnique(t)
  \/ InsertDup(t)
  \/ InsertAttach(t)
  \/ InsertFixupIter(t)
  \/ InsertReturn(t)
  \/ EraseAbsent(t)
  \/ EraseSplice(t)
  \/ EraseDelete(t)
  \/ EraseFixupIter(t)
  \/ EraseFixupEnd(t)
  \/ EraseReturn(t)

LiveNext ==
  \/ \E t \in Readers : ReaderStep(t)
  \/ WriterStep(LiveWriter, ConcVals)

LiveSpec ==
  /\ Init
  /\ [][LiveNext]_vars
  /\ \A t \in Readers : SF_vars(ReaderRun(t))
  /\ SF_vars(WriterRun(LiveWriter))

\* the step starts no call
NoCallStarts == \A t \in LiveThreads : pc[t] = "idle" => pc'[t] = "idle"

\* C11: when only finitely many calls are started, every started lookup,
\* insert and erase eventually returns.
C11_EveryCallReturns ==
  (<>[][NoCallStarts]_vars) =>
    \A t \in LiveThreads : (pc[t] # "idle") ~> (pc[t] = "idle")

\* C11, the part the code keeps: in a run where no lookup reaches a deleted
\* node and only finitely many calls are started, every call returns.
C11_ReturnsUnlessDeletedNode ==
  (<>(\E t \in Readers : pc[t] = "ub")) \/ C11_EveryCallReturns

\* ------------------------------------------------------------------ C12
\* the nodes whose lock the thread holds in shared mode
HeldShared(t) == {n \in Nodes : t \in rw[n].sh}

\* C12: a lookup holds at most two shared locks and never an exclusive one;
\* it holds the lock of the node n whose key, value and child pointers it
\* reads, and it holds n's lock and the child's together before it lets go
\* of n.
C12_LookupLockDiscipline ==
  \A t \in Readers :
    /\ Cardinality(HeldShared(t)) <= 2
    /\ \A n \in Nodes : rw[n].ex # t
    /\ pc[t] \in {"idle", "l_lock_root"} => HeldShared(t) = {}
    /\ pc[t] \in {"l_loop", "l_lock_child"} => HeldShared(t) = {loc[t].n}
    /\ pc[t] = "l_unlock" =>
         /\ loc[t].n # loc[t].child
         /\ HeldShared(t) = {loc[t].n, loc[t].child}

\* a lookup holds a node and its child while a writer is rebalancing
C12_Witness ==
  \E t \in Readers, w \in Writers :
    /\ pc[t] = "l_unlock"
    /\ loc[t].child # NIL
    /\ pc[w] = "i_fixup"

\* ------------------------------------------------------------------ C13
\* insert(k, v) on a tree T that holds k writes the value of k's node and
\* nothing else, so that a second identical insert changes nothing
DupInsertFrame(T, k, v) ==
  /\ erase_search(T, T.root, k) # NIL
  /\ insert(T, k, v) = SetVal(T, erase_search(T, T.root, k), v)
  /\ insert(insert(T, k, v), k, v) = insert(T, k, v)

\* a step of an insert that has found its key: the descent writes nothing;
\* the write of the value is made under the node's exclusive lock and leaves
\* the tree as it was before the call but for that value
DupInsertStep(t) ==
  /\ pc[t] \in {"i_lock_root", "i_loop", "i_lock_next", "i_unlock_x",
                "i_dup_upgrade", "i_dup_unique"} => tree' = tree
  /\ pc[t] = "i_dup_write" /\ pc'[t] = "idle" =>
       /\ rw[loc[t].x].ex = t
       /\ tree.key[loc[t].x] = loc[t].k
       /\ tree' = SetVal(FreeSlot(tree, loc[t].z), loc[t].x, loc[t].v)

\* C13: insert(k, v) on a tree that contains k changes only that node's
\* value (node set, root, colors and links are unchanged, a second identical
\* insert leaves the tree identical), and the value is written while the
\* inserting thread holds the node's lock in exclusive mode.
C13_DupInsertOnlyValue ==
  /\ [](\A k \in ConcKeys, v \in Vals :
          (\A t \in Writers : pc[t] = "idle") /\ ref[k] # nullopt
            => DupInsertFrame(tree, k, v))
  /\ [][\A t \in Writers : DupInsertStep(t)]_vars

\* an insert is about to replace the value of a node that is not the root
C13_Witness ==
  \E t \in Writers :
    /\ pc[t] = "i_dup_write"
    /\ tree.val[loc[t].x] # loc[t].v
    /\ loc[t].x # tree.root

\* ------------------------------------------------------------------ C14
\* C14: erase(k) on a tree that does not contain k returns false and leaves
\* root, every node's key, value, color and links and the sentinel's fields
\* as they were; validate() is still true.
C14_EraseAbsentNoChange ==
  /\ \A k \in SeqKeys :
       ref[k] = nullopt =>
         /\ ~erase(tree, k).found
         /\ erase(tree, k).T = tree
         /\ validate(erase(tree, k).T)
  /\ (ret.op = "erase" /\ ~ret.b => validate(tree))

\* erase has returned false on a tree that holds four keys
C14_Witness ==
  /\ ret.op = "erase"
  /\ ~ret.b
  /\ Cardinality(Reachable(tree)) = SeqMaxKey - 1

\* ------------------------------------------------------------------ C15
\* what erase(k) leaves of a tree whose content is m: every other key with
\* its value, k absent, and the result true
ErasePresentOk(T, m, k) ==
  /\ erase(T, k).found
  /\ \A j \in SeqKeys \ {k} : lookup(erase(T, k).T, j) = m[j]
  /\ lookup(erase(T, k).T, k) = nullopt

\* C15: erase(k) on a tree that contains k returns true; afterwards
\* lookup(k) returns absent and every other key is still present with its
\* value, whatever the number of children of k's node.
C15_ErasePresent ==
  /\ \A k \in SeqKeys : ref[k] # nullopt => ErasePresentOk(tree, ref, k)
  /\ (ret.op = "erase" /\ ret.b => \A j \in SeqKeys : lookup(tree, j) = ref[j])

\* the shapes of a node to erase
NoChild(T, n) == T.left[n] = NIL /\ T.right[n] = NIL
OneChild(T, n) == (T.left[n] = NIL) # (T.right[n] = NIL)
TwoChildren(T, n) == T.left[n] # NIL /\ T.right[n] # NIL

\* a tree that holds a node without child, a node with one child and a node
\* with two children whose successor is not its right child, after an erase
\* has returned true
C15_Witness ==
  /\ ret.op = "erase"
  /\ ret.b
  /\ \E a, b, c \in Reachable(tree) :
       /\ NoChild(tree, a)
       /\ OneChild(tree, b)
       /\ TwoChildren(tree, c)
       /\ minimum(tree, tree.right[c]) # tree.right[c]

\* ------------------------------------------------------------------ C16
\* the empty state: root is the sentinel, the sentinel is BLACK, no node exists
IsEmpty(T) ==
  /\ T.root = NIL
  /\ T.color[NIL] = BLACK
  /\ \A n \in Slots : ~T.alive[n]

\* one BLACK root that carries k and v, with the sentinel for children
IsSingle(T, k, v) ==
  /\ T.root # NIL
  /\ T.alive[T.root]
  /\ T.key[T.root] = k
  /\ T.val[T.root] = v
  /\ T.color[T.root] = BLACK
  /\ T.left[T.root] = NIL
  /\ T.right[T.root] = NIL
  /\ T.parent[T.root] = NIL
  /\ \A n \in Slots \ {T.root} : ~T.alive[n]

\* lookup and erase on the empty tree, and the first insert
EmptyBoundary(T) ==
  /\ \A k \in SeqKeys : lookup(T, k) = nullopt
  /\ \A k \in SeqKeys : ~erase(T, k).found /\ erase(T, k).T = T
  /\ \A k \in SeqKeys, v \in Vals : IsSingle(insert(T, k, v), k, v)

\* the second insert and the erase of the only key
SingleBoundary(T) ==
  /\ \A k \in SeqKeys \ {T.key[T.root]}, v \in Vals :
       /\ Cardinality(Reachable(insert(T, k, v))) = 2
       /\ RBInvariants(insert(T, k, v))
       /\ validate(insert(T, k, v))
       /\ lookup(insert(T, k, v), k) = Some(v)
       /\ lookup(insert(T, k, v), T.key[T.root]) = Some(T.val[T.root])
  /\ erase(T, T.key[T.root]).found
  /\ IsEmpty(erase(T, T.key[T.root]).T)
  /\ \A k \in SeqKeys : lookup(erase(T, T.key[T.root]).T, k) = nullopt

\* C16: on the empty tree lookup returns absent for every key and erase
\* returns false; inserting one key gives a single BLACK root whose children
\* are the sentinel; inserting a second key gives a valid 2-node tree; erasing
\* the only key of a single-node tree gives the empty state, root equal to
\* the sentinel.
C16_Boundary ==
  /\ tree.root = NIL => IsEmpty(tree) /\ EmptyBoundary(tree)
  /\ Cardinality(Reachable(tree)) = 1 =>
       IsSingle(tree, tree.key[tree.root], tree.val[tree.root])
         /\ SingleBoundary(tree)

\* the erase of the only key has just returned true and left the empty state
C16_Witness ==
  /\ ret.op = "erase"
  /\ ret.b
  /\ tree.root = NIL
  /\ tree.parent[NIL] = NIL

\* ====================================== lock_based_rb_tree.cpp: ordered lookup
\* The lookup of lock_based_rb_tree.cpp (lookup strategy 2), which compares
\* lock_id values before it locks the next node.  insert and erase of that
\* file take writers_mutex and no per-node lock, so the per-node locks are
\* taken by lookups only.
\*
\* pc values: o_lock_root, o_loop, o_lock_next, o_unlock_curr (normal order);
\*            o_guard, o_guard_unlock, o_relock, o_guard_release (reverse order)

\* lock_id(reinterpret_cast<uintptr_t>(this)): the node's address
lock_id(n) == n

\* the threads that call this lookup
OrdReaders == Readers \cup Writers

\* std::sort(nodes.begin(), nodes.end(), by lock_id): n put in its place in
\* a sorted vector
sort_insert(s, n) ==
  LET k == Cardinality({j \in 1..Len(s) : lock_id(s[j]) <= lock_id(n)})
  IN SubSeq(s, 1, k) \o <<n>> \o SubSeq(s, k + 1, Len(s))

RECURSIVE sort_by_lock_id(_)
sort_by_lock_id(s) ==
  IF s = <<>> THEN <<>> ELSE sort_insert(sort_by_lock_id(Tail(s)), Head(s))

\* a constructor that keeps the repeats
unique_none(s) == s

\* nodes.erase(std::unique(nodes.begin(), nodes.end()), nodes.end()): every
\* element equal to the one before it is dropped
RECURSIVE unique(_)
unique(s) ==
  IF Len(s) <= 1 THEN s
  ELSE IF s[1] = s[2] THEN unique(Tail(s))
  ELSE <<s[1]>> \o unique(Tail(s))

\* the vector the constructor's loop goes over
sorted_nodes(s) == unique(sort_by_lock_id(s))

Elems(s) == {s[i] : i \in 1..Len(s)}

\* if (root == NIL) return std::nullopt; const NodeT *curr = root;
OrdLookupCall(t, k) ==
  /\ pc[t] = "idle"
  /\ IF tree.root = NIL
     THEN UNCHANGED <<pc, loc>>
     ELSE /\ SetLoc(t, [Loc0 EXCEPT !.k = k, !.curr = tree.root])
          /\ Goto(t, "o_lock_root")
  /\ UNCHANGED <<tree, rw, writers_mutex, ref, ret>>

\* std::shared_lock<std::shared_mutex> curr_lock(curr->rw);
OrdLockRoot(t) ==
  /\ pc[t] = "o_lock_root"
  /\ CanShare(loc[t].curr)
  /\ rw' = lock_shared(rw, loc[t].curr, t)
  /\ Goto(t, "o_loop")
  /\ UNCHANGED <<tree, writers_mutex, loc, ref, ret>>

\* one test of while (curr != NIL): found, or next == NIL (break), or the
\* comparison of curr->lock_id with next->lock_id
OrdLoop(t) ==
  /\ pc[t] = "o_loop"
  /\ LET curr == loc[t].curr
         dir == Direction(tree, curr, loc[t].k)
     IN IF curr = NIL \/ dir = "dup" \/ Child(tree, curr, dir) = NIL
        THEN /\ rw' = unlock_shared(rw, curr, t)
             /\ SetLoc(t, Loc0)
             /\ Goto(t, "idle")
        ELSE /\ SetLoc(t, [loc[t] EXCEPT
                             !.next = Child(tree, curr, dir),
                             !.nodes = IF lock_id(curr) < lock_id(Child(tree, curr, dir))
                                       THEN <<>> ELSE <<curr, Child(tree, curr, dir)>>])
             /\ Goto(t, IF lock_id(curr) < lock_id(Child(tree, curr, dir))
                        THEN "o_lock_next" ELSE "o_guard")
             /\ UNCHANGED rw
  /\ UNCHANGED <<tree, writers_mutex, ref, ret>>

\* normal order: std::shared_lock<std::shared_mutex> next_lock(next->rw);
OrdLockNext(t) ==
  /\ pc[t] = "o_lock_next"
  /\ CanShare(loc[t].next)
  /\ rw' = lock_shared(rw, loc[t].next, t)
  /\ Goto(t, "o_unlock_curr")
  /\ UNCHANGED <<tree, writers_mutex, loc, ref, ret>>

\* normal order: curr_lock.unlock(); curr = next; curr_lock = std::move(next_lock);
OrdUnlockCurr(t) ==
  /\ pc[t] = "o_unlock_curr"
  /\ rw' = unlock_shared(rw, loc[t].curr, t)
  /\ SetLoc(t, [loc[t] EXCEPT !.curr = loc[t].next, !.next = NIL])
  /\ Goto(t, "o_loop")
  /\ UNCHANGED <<tree, writers_mutex, ref, ret>>

\* OrderedLockGuard's constructor, one locks_.emplace_back(node->rw) per
\* step over the sorted vector; "o_guard" in lookup's reverse-order branch,
\* "g_guard" in a guard constructed on its own
OrderedLockGuard(t) ==
  /\ pc[t] \in {"o_guard", "g_guard"}
  /\ LET m == sorted_nodes(loc[t].nodes)[Len(loc[t].locks_) + 1]
         last == Len(loc[t].locks_) + 1 = Len(sorted_nodes(loc[t].nodes))
     IN /\ CanShare(m)
        /\ rw' = lock_shared(rw, m, t)
        /\ SetLoc(t, [loc[t] EXCEPT !.locks_ = Append(@, m)])
        /\ Goto(t, IF ~last THEN pc[t]
                   ELSE IF pc[t] = "o_guard" THEN "o_guard_unlock" ELSE "g_held")
  /\ UNCHANGED <<tree, writers_mutex, ref, ret>>

\* reverse order: curr_lock.unlock(); curr = next;  (ordered_lock still owns
\* a shared hold on the old curr)
OrdGuardUnlock(t) ==
  /\ pc[t] = "o_guard_unlock"
  /\ SetLoc(t, [loc[t] EXCEPT !.curr = loc[t].next, !.next = NIL])
  /\ Goto(t, "o_relock")
  /\ UNCHANGED <<tree, rw, writers_mutex, ref, ret>>

\* reverse order: curr_lock = std::shared_lock<std::shared_mutex>(curr->rw);
OrdRelock(t) ==
  /\ pc[t] = "o_relock"
  /\ CanShare(loc[t].curr)
  /\ rw' = lock_shared(rw, loc[t].curr, t)
  /\ Goto(t, "o_guard_release")
  /\ UNCHANGED <<tree, writers_mutex, loc, ref, ret>>

\* reverse order: ordered_lock goes out of scope; curr_lock keeps curr
OrdGuardRelease(t) ==
  /\ pc[t] = "o_guard_release"
  /\ rw' = [n \in Nodes |->
              IF n \in Elems(loc[t].locks_) \ {loc[t].curr}
              THEN [rw[n] EXCEPT !.sh = @ \ {t}] ELSE rw[n]]
  /\ SetLoc(t, [loc[t] EXCEPT !.locks_ = <<>>, !.nodes = <<>>])
  /\ Goto(t, "o_loop")
  /\ UNCHANGED <<tree, writers_mutex, ref, ret>>

OrdReaderStep(t) ==
  \/ \E k \in ConcKeys : OrdLookupCall(t, k)
  \/ OrdLockRoot(t)
  \/ OrdLoop(t)
  \/ OrdLockNext(t)
  \/ OrdUnlockCurr(t)
  \/ OrderedLockGuard(t)
  \/ OrdGuardUnlock(t)
  \/ OrdRelock(t)
  \/ OrdGuardRelease(t)

OrdNext == \E t \in OrdReaders : OrdReaderStep(t)

OrdSpec == Init /\ [][OrdNext]_vars

\* ------------------------------------------------------------------ C17
\* the node whose lock the thread's next step asks for
Requested(t) ==
  IF pc[t] \in {"o_lock_root", "o_relock"} THEN {loc[t].curr}
  ELSE IF pc[t] = "o_lock_next" THEN {loc[t].next}
  ELSE IF pc[t] = "o_guard"
  THEN {sorted_nodes(loc[t].nodes)[Len(loc[t].locks_) + 1]}
  ELSE {}

\* C17: a thread never asks for the lock of a node with a smaller lock_id
\* while it holds the lock of a node with a larger lock_id.
C17_LockIdOrder ==
  \A t \in OrdReaders :
    \A m \in Requested(t) :
      \A h \in HeldShared(t) : lock_id(h) <= lock_id(m)

\* ========================================================== arbitrary trees
\* validate() and lookup() applied to any binary tree of at most ArbMaxNodes
\* nodes, whatever its colors and keys: the trees a faulty writer could leave.
ArbMaxNodes == 3

ArbKeys == 1..ArbMaxNodes

\* the shapes of n nodes: node 1 is the root, node i > 1 hangs on the "L" or
\* "R" side of an earlier node, no two nodes at the same place
Shapes(n) ==
  {s \in [2..n -> (1..n) \X {"L", "R"}] :
     /\ \A i \in 2..n : s[i][1] < i
     /\ \A i, j \in 2..n : i # j => s[i] # s[j]}

\* the child of node i on one side
ArbChild(n, s, i, side) ==
  IF \E j \in 2..n : s[j] = <<i, side>>
  THEN CHOOSE j \in 2..n : s[j] = <<i, side>>
  ELSE NIL

\* the nodes of a shape, linked as the tree's fields link them
MkTree(n, s, key, color) ==
  [root   |-> IF n = 0 THEN NIL ELSE 1,
   alive  |-> [i \in Nodes |-> i <= n],
   key    |-> [i \in Nodes |-> IF i \in 1..n THEN key[i] ELSE 0],
   val    |-> [i \in Nodes |-> IF i \in 1..n THEN 1 ELSE 0],
   color  |-> [i \in Nodes |-> IF i \in 1..n THEN color[i]
                               ELSE IF i = NIL THEN BLACK ELSE RED],
   parent |-> [i \in Nodes |-> IF i = 1 /\ n > 0 THEN NIL
                               ELSE IF i \in 2..n THEN s[i][1] ELSE NULL],
   left   |-> [i \in Nodes |-> IF i \in 1..n THEN ArbChild(n, s, i, "L") ELSE NULL],
   right  |-> [i \in Nodes |-> IF i \in 1..n THEN ArbChild(n, s, i, "R") ELSE NULL]]

ArbTrees ==
  UNION {{MkTree(n, s, key, color) :
            s \in Shapes(n), key \in [1..n -> ArbKeys],
            color \in [1..n -> {RED, BLACK}]} : n \in 0..ArbMaxNodes}

ArbInit ==
  /\ tree \in ArbTrees
  /\ rw = [n \in Nodes |-> Unlocked]
  /\ writers_mutex = NoThread
  /\ pc = [t \in Threads |-> "idle"]
  /\ loc = [t \in Threads |-> Loc0]
  /\ ref = Content(tree)
  /\ ret = NoRet

ArbNext ==
  \/ SeqValidate
  \/ \E k \in ArbKeys : SeqLookup(k)

ArbSpec == ArbInit /\ [][ArbNext]_vars

\* ------------------------------------------------------------------ C18
\* C18: validate() returns true only for trees that satisfy all the
\* invariants: BLACK root, BLACK sentinel, no RED node with a RED child, equal
\* BLACK counts on all root-to-sentinel paths, in-order keys in comparator
\* order.
C18_ValidateImpliesInvariants ==
  /\ validate(tree) => RBInvariants(tree)
  /\ (ret.op = "validate" /\ ret.b => RBInvariants(tree))

C18_Witness ==
  /\ ret.op = "validate"
  /\ ret.b
  /\ ~RBInvariants(tree)

\* ------------------------------------------------------------------ C19
\* the three defects validate_rec looks for, stated on the whole tree
RedWithRedChild(T) ==
  \E n \in Reachable(T) :
    /\ T.color[n] = RED
    /\ T.color[T.left[n]] = RED \/ T.color[T.right[n]] = RED

BlackCountsDiffer(T) == ~BlackHeightEqual(T)

ChildOutOfOrder(T) ==
  \E n \in Reachable(T) :
    \/ T.left[n] # NIL /\ comp(T.key[n], T.key[T.left[n]])
    \/ T.right[n] # NIL /\ comp(T.key[T.right[n]], T.key[n])

Defective(T) ==
  RedWithRedChild(T) \/ BlackCountsDiffer(T) \/ ChildOutOfOrder(T)

\* C19: validate() returns false exactly when the tree has a RED node with a
\* RED child, or two root-to-sentinel paths with different BLACK counts, or a
\* node whose key orders before its left child's key or after its right
\* child's key; on every other tree, the empty one included, it returns true.
C19_ValidateExact ==
  /\ validate(tree) = ~Defective(tree)
  /\ (ret.op = "validate" => ret.b = ~Defective(tree))

\* validate() has returned false on a tree whose only defect is the BLACK
\* count, and true on the empty tree
C19_Witness ==
  /\ ret.op = "validate"
  /\ ~ret.b
  /\ BlackCountsDiffer(tree)
  /\ ~RedWithRedChild(tree)
  /\ ~ChildOutOfOrder(tree)

\* ------------------------------------------------------------------ C20
\* the steps of lookup() and validate()
ReadOnlyCallStep ==
  \/ \E t \in Readers : ReaderStep(t)
  \/ ValidatorStep(Validator)

\* C20: lookup and validate are read-only: no step of either changes root or
\* any node's key, value, color or parent/left/right link, whatever the call
\* returns.
C20_ReadOnly == [][ReadOnlyCallStep => tree' = tree]_vars

\* a lookup has descended one level and is about to descend again while
\* validate() runs
C20_Witness ==
  /\ pc[Validator] = "v_validate"
  /\ \E t \in Readers :
       /\ pc[t] = "l_unlock"
       /\ loc[t].n # tree.root
       /\ loc[t].child # NIL

\* ===================================================== allocation failure
\* insert() with its first two statements apart, so that `new NodeT(k, v)`
\* can throw std::bad_alloc:
\*   std::unique_lock<std::mutex> writer_guard(writers_mutex);
InsertEnter(t, k, v) ==
  /\ pc[t] = "idle"
  /\ mutex_free(writers_mutex)
  /\ writers_mutex' = t
  /\ SetLoc(t, [Loc0 EXCEPT !.k = k, !.v = v])
  /\ Goto(t, "i_alloc")
  /\ UNCHANGED <<tree, rw, ref, ret>>

\*   NodeT *z = new NodeT(k, v); z->left = z->right = z->parent = NIL;
\*   NodeT *y = NIL; NodeT *x = root;
InsertAlloc(t) ==
  /\ pc[t] = "i_alloc"
  /\ tree' = Construct(tree, NewNode(tree, loc[t].k), loc[t].k, loc[t].v)
  /\ SetLoc(t, [loc[t] EXCEPT !.z = NewNode(tree, loc[t].k), !.y = NIL,
                              !.x = tree.root])
  /\ ref' = [ref EXCEPT ![loc[t].k] = Some(loc[t].v)]
  /\ Goto(t, "i_lock_root")
  /\ UNCHANGED <<rw, writers_mutex, ret>>

\* an allocation failure that leaves writers_mutex locked
InsertBadAllocKeepsMutex(t) ==
  /\ pc[t] = "i_alloc"
  /\ SetLoc(t, Loc0)
  /\ Goto(t, "idle")
  /\ ret' = [op |-> "bad_alloc", b |-> FALSE, v |-> nullopt]
  /\ UNCHANGED <<tree, rw, writers_mutex, ref>>

\*   new throws: the stack unwinds, writer_guard's destructor unlocks
InsertBadAlloc(t) ==
  /\ pc[t] = "i_alloc"
  /\ writers_mutex' = NoThread
  /\ SetLoc(t, Loc0)
  /\ Goto(t, "idle")
  /\ ret' = [op |-> "bad_alloc", b |-> FALSE, v |-> nullopt]
  /\ UNCHANGED <<tree, rw, ref>>

AllocWriterStep(t) ==
  \/ \E k \in ConcKeys, v \in ConcVals : InsertEnter(t, k, v)
  \/ InsertAlloc(t)
  \/ InsertBadAlloc(t)
  \/ InsertLockRoot(t)
  \/ InsertLoop(t)
  \/ InsertLockNext(t)
  \/ InsertUnlockX(t)
  \/ UpgradeUnlock(t)
  \/ UpgradeLockUnique(t)
  \/ InsertDup(t)
  \/ InsertAttach(t)
  \/ InsertFixupIter(t)
  \/ InsertReturn(t)
  \/ \E k \in ConcKeys : EraseCall(t, k)
  \/ EraseAbsent(t)
  \/ EraseSplice(t)
  \/ EraseDelete(t)
  \/ EraseFixupIter(t)
  \/ EraseFixupEnd(t)
  \/ EraseReturn(t)

AllocNext ==
  \/ \E t \in Readers : ReaderStep(t)
  \/ \E t \in Writers : AllocWriterStep(t)

AllocSpec == Init /\ [][AllocNext]_vars

\* ------------------------------------------------------------------ C21
\* the per-node locks a thread holds, shared or exclusive
HeldNodes(t) == {n \in Nodes : t \in rw[n].sh \/ rw[n].ex = t}

\* the step in which insert's allocation fails
AllocFails(t) == pc[t] = "i_alloc" /\ pc'[t] = "idle"

FailureLeavesNothing ==
  \A t \in Writers :
    AllocFails(t) =>
      /\ tree' = tree
      /\ writers_mutex' # t
      /\ HeldNodes(t)' = {}

\* C21 as stated: the allocation happens before any lock is taken (the
\* writer mutex included); a failed allocation leaves the tree unchanged and
\* the thread holding neither the writer mutex nor a per-node lock.
C21_AllocBeforeAnyLock ==
  /\ [](\A t \in Writers :
          pc[t] = "i_alloc" => writers_mutex # t /\ HeldNodes(t) = {})
  /\ [][FailureLeavesNothing]_vars

\* C21: the allocation happens after writers_mutex is locked and before any
\* per-node lock is taken; a failed allocation leaves the tree unchanged and
\* the thread holding neither the writer mutex nor a per-node lock.
C21_AllocUnderMutexOnly ==
  /\ [](\A t \in Writers :
          pc[t] = "i_alloc" => writers_mutex = t /\ HeldNodes(t) = {})
  /\ [][FailureLeavesNothing]_vars

\* an allocation has failed on a tree that holds nodes, beside a lookup that
\* holds a node's lock
C21_Witness ==
  /\ ret.op = "bad_alloc"
  /\ \A t \in Writers : pc[t] = "idle"
  /\ writers_mutex = NoThread
  /\ tree.root # NIL
  /\ \E r \in Readers : HeldShared(r) # {}

\* ------------------------------------------------------------------ C22
\* The nodes that the statements of insert and erase color RED.
Grand(T, z) == T.parent[T.parent[z]]

GrandOf(r) == Grand(r.T, r.z)

\* one iteration of insert_fixup: z->parent->parent->color = RED, in case 1
\* and in case 3 (after case 2 has moved z)
insert_iter_reds(T, z) ==
  IF T.parent[z] = T.left[Grand(T, z)]
  THEN IF T.color[T.right[Grand(T, z)]] = RED
       THEN {Grand(T, z)}
       ELSE {GrandOf(fixup_case2_left(T, z))}
  ELSE IF T.color[T.left[Grand(T, z)]] = RED
       THEN {Grand(T, z)}
       ELSE {GrandOf(fixup_case2_right(T, z))}

RECURSIVE insert_fixup_reds(_, _)
insert_fixup_reds(T, z) ==
  IF insert_fixup_cond(T, z)
  THEN insert_iter_reds(T, z)
         \cup insert_fixup_reds(insert_fixup_iter(T, z).T, insert_fixup_iter(T, z).z)
  ELSE {}

insert_at_reds(T, z, d) ==
  IF d.dup THEN {} ELSE insert_fixup_reds(attach(T, z, d.y), z)

insert_node_reds(T, z, k) == insert_at_reds(T, z, descend(T, T.root, NIL, k))

\* the nodes insert(k, v) colors RED after the constructor
insert_reds(T, k, v) ==
  insert_node_reds(Construct(T, NewNode(T, k), k, v), NewNode(T, k), k)

\* delete_fixup, x a left child.  Case 1: x->parent->color = RED
del_case1_reds(T, x, w) == IF T.color[w] = RED THEN {T.parent[x]} ELSE {}

\* Case 3: w->color = RED
del_case3_reds_left(T, x, w) == IF T.color[T.right[w]] = BLACK THEN {w} ELSE {}

\* Case 4: w->color = x->parent->color
del_case4_reds(T, x, w) == IF T.color[T.parent[x]] = RED THEN {w} ELSE {}

del_case4_reds_left(T, x) == del_case4_reds(T, x, T.right[T.parent[x]])

del_case234_reds_left(T, x, w) ==
  IF T.color[T.left[w]] = BLACK /\ T.color[T.right[w]] = BLACK
  THEN {w}
  ELSE del_case3_reds_left(T, x, w)
         \cup del_case4_reds_left(del_case3_left(T, x, w), x)

del_after1_reds_left(T, x) == del_case234_reds_left(T, x, T.right[T.parent[x]])

del_iter_reds_left(T, x, w) ==
  del_case1_reds(T, x, w) \cup del_after1_reds_left(del_case1_left(T, x, w), x)

\* x a right child: the mirror image
del_case3_reds_right(T, x, w) == IF T.color[T.left[w]] = BLACK THEN {w} ELSE {}

del_case4_reds_right(T, x) == del_case4_reds(T, x, T.left[T.parent[x]])

del_case234_reds_right(T, x, w) ==
  IF T.color[T.right[w]] = BLACK /\ T.color[T.left[w]] = BLACK
  THEN {w}
  ELSE del_case3_reds_right(T, x, w)
         \cup del_case4_reds_right(del_case3_right(T, x, w), x)

del_after1_reds_right(T, x) == del_case234_reds_right(T, x, T.left[T.parent[x]])

del_iter_reds_right(T, x, w) ==
  del_case1_reds(T, x, w) \cup del_after1_reds_right(del_case1_right(T, x, w), x)

delete_iter_reds(T, x) ==
  IF x = T.left[T.parent[x]]
  THEN del_iter_reds_left(T, x, T.right[T.parent[x]])
  ELSE del_iter_reds_right(T, x, T.left[T.parent[x]])

RECURSIVE delete_fixup_reds(_, _)
delete_fixup_reds(T, x) ==
  IF delete_fixup_cond(T, x)
  THEN delete_iter_reds(T, x)
         \cup delete_fixup_reds(delete_fixup_iter(T, x).T, delete_fixup_iter(T, x).x)
  ELSE {}

\* y->color = z->color; in the two-children case
splice_reds(T, z) ==
  IF T.left[z] # NIL /\ T.right[z] # NIL /\ T.color[z] = RED
  THEN {minimum(T, T.right[z])}
  ELSE {}

erase_finish_reds(s, z) ==
  IF s.y_original = BLACK THEN delete_fixup_reds(FreeSlot(s.T, z), s.x) ELSE {}

erase_at_reds(T, z) ==
  IF z = NIL THEN {} ELSE splice_reds(T, z) \cup erase_finish_reds(splice(T, z), z)

\* the nodes erase(k) colors RED
erase_reds(T, k) == erase_at_reds(T, erase_search(T, T.root, k))

\* C22: the sentinel is BLACK in every reachable state, and no statement of
\* insert, erase, insert_fixup or delete_fixup colors the sentinel RED: the
\* grandparent, parent and sibling they color RED are real nodes.
\* (The tree the operations start from is one validate() accepts.)
C22_SentinelNeverRed ==
  /\ SentinelBlack(tree)
  /\ validate(tree)
  /\ \A k \in SeqKeys, v \in Vals : NIL \notin insert_reds(tree, k, v)
  /\ \A k \in SeqKeys : NIL \notin erase_reds(tree, k)

\* after an erase, on a tree where an erase would color a parent or a sibling
\* RED and an insert a grandparent
C22_Witness ==
  /\ \E k \in SeqKeys : erase_reds(tree, k) # {}
  /\ \E k \in SeqKeys : insert_reds(tree, k, 1) # {}
  /\ ret.op = "erase"
  /\ ret.b

\* ------------------------------------------------------------------ C23
\* the node pointers that the next step of a thread dereferences
Deref(t) ==
  IF pc[t] \in {"l_lock_root", "l_loop"} THEN {loc[t].n}
  ELSE IF pc[t] \in {"l_lock_child", "l_unlock"} THEN {loc[t].n, loc[t].child}
  ELSE IF pc[t] \in {"i_lock_root", "i_loop", "i_upgrade", "i_dup_upgrade",
                     "i_unique", "i_dup_unique", "i_dup_write"}
  THEN {loc[t].x}
  ELSE IF pc[t] \in {"i_lock_next", "i_unlock_x"} THEN {loc[t].x, loc[t].next}
  ELSE IF pc[t] = "i_attach" THEN {loc[t].z, loc[t].y}
  ELSE IF pc[t] = "i_fixup"
  THEN {loc[t].z, tree.parent[loc[t].z]}
         \cup (IF insert_fixup_cond(tree, loc[t].z)
               THEN {Grand(tree, loc[t].z),
                     tree.left[Grand(tree, loc[t].z)],
                     tree.right[Grand(tree, loc[t].z)]}
               ELSE {tree.root})
  ELSE IF pc[t] = "e_splice"
  THEN {loc[t].z, tree.left[loc[t].z], tree.right[loc[t].z]}
  ELSE IF pc[t] = "e_delete" THEN {loc[t].z}
  ELSE IF pc[t] = "e_fixup"
  THEN {loc[t].x}
         \cup (IF delete_fixup_cond(tree, loc[t].x)
               THEN {tree.parent[loc[t].x],
                     tree.left[tree.parent[loc[t].x]],
                     tree.right[tree.parent[loc[t].x]]}
               ELSE {})
  ELSE {}

\* C23: in every reachable state root and the left and right links of every
\* node of the tree are non-null (a real node or the sentinel), and the
\* pointer that a step of lookup, insert, erase or a fix-up dereferences is
\* never null.
C23_NoNullLinks ==
  /\ tree.root # NULL
  /\ \A n \in Nodes \ {NIL} :
       tree.alive[n] => tree.left[n] # NULL /\ tree.right[n] # NULL
  /\ \A n \in Reachable(tree) : tree.alive[n]
  /\ \A t \in Threads : NULL \notin Deref(t)

\* an erase is inside delete_fixup's loop while a lookup is about to lock a
\* child
C23_Witness ==
  /\ \E t \in Writers : pc[t] = "e_fixup" /\ delete_fixup_cond(tree, loc[t].x)
  /\ \E t \in Readers : pc[t] = "l_lock_child"

\* ------------------------------------------------------------------ C24
\* the real nodes that exist
RealNodes(T) == {n \in Nodes \ {NIL} : T.alive[n]}

\* the child slots that hold n, as <<holder, side>>, and root as <<NIL, "root">>
SlotsOf(T, n) ==
  {<<p, "left">> : p \in {q \in RealNodes(T) : T.left[q] = n}}
    \cup {<<p, "right">> : p \in {q \in RealNodes(T) : T.right[q] = n}}
    \cup (IF T.root = n THEN {<<NIL, "root">>} ELSE {})

\* n is held by exactly one slot and n->parent names the holder
OneSlot(T, n) ==
  /\ Cardinality(SlotsOf(T, n)) = 1
  /\ \A s \in SlotsOf(T, n) : T.parent[n] = s[1]

\* C24: after every completed insert and erase the links form a proper tree
\* with consistent parent pointers: each real node is held by exactly one
\* child slot or by root, its parent field names the holder (the sentinel for
\* the root), and every real node is reached from root, by one path and
\* without a cycle.
C24_ProperTree ==
  /\ \A n \in RealNodes(tree) : OneSlot(tree, n)
  /\ Reachable(tree) = RealNodes(tree)
  /\ Len(InOrder(tree, tree.root)) = Cardinality(RealNodes(tree))

\* an erase has completed and has left all keys but one, the missing key
\* neither the least nor the greatest
C24_Witness ==
  /\ ret.op = "erase"
  /\ ret.b
  /\ Cardinality(RealNodes(tree)) = SeqMaxKey - 1
  /\ \E k \in SeqKeys : ref[k] = nullopt /\ k > 1 /\ k < SeqMaxKey

\* ------------------------------------------------------------------ C25
\* the keys present
Present == {k \in SeqKeys : ref[k] # nullopt}

Size(T) == Cardinality(Reachable(T))

OneNodePerKey(T) ==
  \A n, m \in Reachable(T) : n # m => T.key[n] # T.key[m]

\* C25: the number of real nodes reachable from root equals the number of
\* distinct keys present and no key is stored in two nodes; insert adds
\* exactly one node when its key is absent and none when it is present, erase
\* removes exactly one node when its key is present and none when it is
\* absent.
C25_OneNodePerKey ==
  /\ Size(tree) = Cardinality(Present)
  /\ OneNodePerKey(tree)
  /\ \A k \in SeqKeys, v \in Vals :
       Size(insert(tree, k, v)) = Size(tree) + (IF k \in Present THEN 0 ELSE 1)
  /\ \A k \in SeqKeys :
       Size(erase(tree, k).T) = Size(tree) - (IF k \in Present THEN 1 ELSE 0)

\* an insert has completed, the value 2 is stored and exactly one key is
\* absent
C25_Witness ==
  /\ ret.op = "insert"
  /\ Size(tree) = SeqMaxKey - 1
  /\ \E n \in Reachable(tree) : tree.val[n] = 2

\* ======================================================= parallel lookups
\* Two threads in lookup(), one writer and the validator
ParWriter == "w1"

\* the keys the threads pass to lookup, insert and erase
ParMaxKey == 2

ParKeys == 1..ParMaxKey

ParReaderStep(t) ==
  \/ \E k \in ParKeys : LookupCall(t, k)
  \/ ReaderRun(t)

ParWriterStep(t) ==
  \/ \E k \in ParKeys, v \in ConcVals : InsertCall(t, k, v)
  \/ \E k \in ParKeys : EraseCall(t, k)
  \/ WriterRun(t)

ParNext ==
  \/ \E t \in Lookers : ParReaderStep(t)
  \/ ParWriterStep(ParWriter)
  \/ ValidatorStep(Validator)

ParSpec == Init /\ [][ParNext]_vars

\* ------------------------------------------------------------------ C26
\* the node whose lock the next step of a lookup asks for
Wanted(t) ==
  IF pc[t] = "l_lock_root" THEN {loc[t].n}
  ELSE IF pc[t] = "l_lock_child" THEN {loc[t].child}
  ELSE {}

\* a lookup that has been called and has not returned, the node under it
\* still there
InLookup(t) == pc[t] \in {"l_lock_root", "l_loop", "l_lock_child", "l_unlock"}

\* a step of lookup leaves writers_mutex alone and locks nothing exclusively
LookupStepShared ==
  \A t \in Lookers :
    ParReaderStep(t) =>
      /\ writers_mutex' = writers_mutex
      /\ \A n \in Nodes : rw'[n].ex = rw[n].ex

\* C26: readers are not serialized by the writers' mutual exclusion: lookup
\* never acquires writers_mutex and takes per-node locks in shared mode only;
\* lookups never wait for one another, and whoever holds writers_mutex, a
\* lookup's next step can be taken unless a writer holds the exclusive lock
\* of the node the lookup asks for.
C26_ReadersNotSerialized ==
  /\ [][LookupStepShared]_vars
  /\ [](\A t \in Lookers : \A n \in Nodes : rw[n].ex # t)
  /\ [](\A t \in Lookers :
          InLookup(t) =>
            \/ ENABLED ReaderRun(t)
            \/ \E n \in Wanted(t) : rw[n].ex = ParWriter)

\* two lookups hold the shared lock of the same node, and one of them is
\* about to take its child's, while the validator holds writers_mutex
C26_Witness ==
  /\ writers_mutex = Validator
  /\ pc[Validator] = "v_validate"
  /\ \E n \in Nodes \ {NIL} : \A t \in Lookers : t \in rw[n].sh
  /\ \E t \in Lookers : pc[t] = "l_lock_child" /\ loc[t].child # NIL

\* ============================================== a lookup of an untouched key
\* One thread looks LinKey up again and again; one writer inserts and erases
\* the other keys, so that LinKey's mapping never changes.
LinMaxKey == 4

LinKey == 3

LinOther == (1..LinMaxKey) \ {LinKey}

LinReaderStep(t) ==
  \/ LookupCall(t, LinKey)
  \/ ReaderRun(t)

LinWriterStep(t) ==
  \/ \E k \in LinOther, v \in ConcVals : InsertCall(t, k, v)
  \/ \E k \in LinOther : EraseCall(t, k)
  \/ WriterRun(t)

LinNext ==
  \/ \E t \in Readers : LinReaderStep(t)
  \/ LinWriterStep(ParWriter)

LinSpec == Init /\ [][LinNext]_vars

\* ------------------------------------------------------------------ C27
\* lookup returns from its loop: std::nullopt at the sentinel, n->val at an
\* equal key
LookupReturns(t) == pc[t] = "l_loop" /\ pc'[t] = "idle"

LookupResult(t) ==
  IF loc[t].n = NIL THEN nullopt ELSE Some(tree.val[loc[t].n])

\* C27: lookups are linearizable: a lookup of a key that is present with the
\* same value from its call to its return, while other keys are inserted and
\* erased and the tree is rotated, returns that value and never absent.
C27_LookupOfStableKey ==
  [][\A t \in Readers :
       LookupReturns(t) /\ ref[LinKey] # nullopt => LookupResult(t) = ref[LinKey]]_vars

\* =============================== lock_based_rb_tree.cpp: writers, Strategy 3
\* insert and erase hold writers_mutex for the whole call; insert_hybrid and
\* lookup_hybrid hold global_rw_lock for the whole call.  The guards are
\* scoped, so a thread holds the lock exactly while it is in the body.
\*   pc "ci_body": in insert, "ce_body": in erase       (writers_mutex)
\*   pc "hi_body": in insert_hybrid   (global_rw_lock, exclusive)
\*   pc "hl_body": in lookup_hybrid   (global_rw_lock, shared)
global_rw_lock ==
  [sh |-> {t \in Threads : pc[t] = "hl_body"},
   ex |-> IF \E t \in Threads : pc[t] = "hi_body"
          THEN CHOOSE t \in Threads : pc[t] = "hi_body"
          ELSE NoThread]

\* the thread is between the first and the last write of a call that mutates
Mutating(t) == pc[t] \in {"ci_body", "ce_body", "hi_body"}

\* another thread writes the tree during this thread's body: a data race
Racing(t) == \E u \in Threads \ {t} : Mutating(u)

\* the tree a mutation leaves: what the call computes, or under a data race
\* also a tree in which its writes are lost
Outcome(t, T) == IF Racing(t) THEN {T, tree} ELSE {T}

\* std::unique_lock<std::mutex> writer_guard(writers_mutex);   (insert)
CppInsertLock(t, k, v) ==
  /\ pc[t] = "idle"
  /\ mutex_free(writers_mutex)
  /\ writers_mutex' = t
  /\ SetLoc(t, [Loc0 EXCEPT !.k = k, !.v = v])
  /\ Goto(t, "ci_body")
  /\ UNCHANGED <<tree, rw, ref, ret>>

\* the body of insert, and the guard's release
CppInsertBody(t) ==
  /\ pc[t] = "ci_body"
  /\ tree' \in Outcome(t, insert(tree, loc[t].k, loc[t].v))
  /\ writers_mutex' = NoThread
  /\ SetLoc(t, Loc0)
  /\ Goto(t, "idle")
  /\ UNCHANGED <<rw, ref, ret>>

\* std::unique_lock<std::mutex> writer_guard(writers_mutex);   (erase)
CppEraseLock(t, k) ==
  /\ pc[t] = "idle"
  /\ mutex_free(writers_mutex)
  /\ writers_mutex' = t
  /\ SetLoc(t, [Loc0 EXCEPT !.k = k])
  /\ Goto(t, "ce_body")
  /\ UNCHANGED <<tree, rw, ref, ret>>

\* the body of erase, and the guard's release
CppEraseBody(t) ==
  /\ pc[t] = "ce_body"
  /\ tree' \in Outcome(t, erase(tree, loc[t].k).T)
  /\ writers_mutex' = NoThread
  /\ SetLoc(t, Loc0)
  /\ Goto(t, "idle")
  /\ UNCHANGED <<rw, ref, ret>>

\* std::unique_lock<std::shared_mutex> writer_lock(global_rw_lock);
HybInsertLock(t, k, v) ==
  /\ pc[t] = "idle"
  /\ global_rw_lock.ex = NoThread
  /\ global_rw_lock.sh = {}
  /\ SetLoc(t, [Loc0 EXCEPT !.k = k, !.v = v])
  /\ Goto(t, "hi_body")
  /\ UNCHANGED <<tree, rw, writers_mutex, ref, ret>>

\* the body of insert_hybrid, and the guard's release
HybInsertBody(t) ==
  /\ pc[t] = "hi_body"
  /\ tree' \in Outcome(t, insert(tree, loc[t].k, loc[t].v))
  /\ SetLoc(t, Loc0)
  /\ Goto(t, "idle")
  /\ UNCHANGED <<rw, writers_mutex, ref, ret>>

\* std::shared_lock<std::shared_mutex> global_lock(global_rw_lock);
HybLookupLock(t, k) ==
  /\ pc[t] = "idle"
  /\ global_rw_lock.ex = NoThread
  /\ SetLoc(t, [Loc0 EXCEPT !.k = k])
  /\ Goto(t, "hl_body")
  /\ UNCHANGED <<tree, rw, writers_mutex, ref, ret>>

\* the traversal of lookup_hybrid; under a data race it may miss the key
HybLookupBody(t) ==
  /\ pc[t] = "hl_body"
  /\ \E r \in (IF Racing(t) THEN {lookup(tree, loc[t].k), nullopt}
               ELSE {lookup(tree, loc[t].k)}) :
       ret' = [op |-> "lookup", b |-> FALSE, v |-> r]
  /\ SetLoc(t, Loc0)
  /\ Goto(t, "idle")
  /\ UNCHANGED <<tree, rw, writers_mutex, ref>>

HybWriterStep(t) ==
  \/ \E k \in ConcKeys, v \in ConcVals : CppInsertLock(t, k, v)
  \/ CppInsertBody(t)
  \/ \E k \in ConcKeys : CppEraseLock(t, k)
  \/ CppEraseBody(t)
  \/ \E k \in ConcKeys, v \in ConcVals : HybInsertLock(t, k, v)
  \/ HybInsertBody(t)

HybReaderStep(t) ==
  \/ \E k \in ConcKeys : HybLookupLock(t, k)
  \/ HybLookupBody(t)

HybNext ==
  \/ \E t \in Writers : HybWriterStep(t)
  \/ \E t \in Readers : HybReaderStep(t)

HybSpec == Init /\ [][HybNext]_vars

\* ------------------------------------------------------------------ C28
\* C28: in lock_based_rb_tree.cpp all writers are serialized: at most one
\* thread at a time is mutating the tree, among calls to insert,
\* insert_hybrid and erase.
C28_CppWritersSerialized ==
  \A t, u \in Threads : Mutating(t) /\ Mutating(u) => t = u

\* ------------------------------------------------------------------ C29
\* C29: under Strategy 3 no lookup_hybrid traversal overlaps a mutation of
\* the tree by insert, insert_hybrid or erase.
C29_HybridReadersExcluded ==
  \A t \in Threads : pc[t] = "hl_body" => \A u \in Threads : ~Mutating(u)

\* ================================================ OrderedLockGuard by itself
\* Threads construct an OrderedLockGuard from any vector of at most
\* GuardMaxLen nodes that exist (the sentinel included), hold it, and destroy
\* it.
GuardMaxLen == 3

GuardThreads == Lookers

Vectors ==
  UNION {[1..len -> {n \in Nodes : tree.alive[n]}] : len \in 0..GuardMaxLen}

\* OrderedLockGuard<K,V> g(nodes): the vector is sorted and made unique
\* before the first lock is taken
GuardConstruct(t, nodes) ==
  /\ pc[t] = "idle"
  /\ SetLoc(t, [Loc0 EXCEPT !.nodes = nodes])
  /\ Goto(t, IF sorted_nodes(nodes) = <<>> THEN "g_held" ELSE "g_guard")
  /\ UNCHANGED <<tree, rw, writers_mutex, ref, ret>>

\* ~OrderedLockGuard(): locks_ is destroyed and every shared_lock in it
\* unlocks
GuardDestroy(t) ==
  /\ pc[t] = "g_held"
  /\ rw' = [n \in Nodes |->
              IF n \in Elems(loc[t].locks_)
              THEN [rw[n] EXCEPT !.sh = @ \ {t}] ELSE rw[n]]
  /\ SetLoc(t, Loc0)
  /\ Goto(t, "idle")
  /\ UNCHANGED <<tree, writers_mutex, ref, ret>>

GuardStep(t) ==
  \/ \E nodes \in Vectors : GuardConstruct(t, nodes)
  \/ OrderedLockGuard(t)
  \/ GuardDestroy(t)

GuardNext == \E t \in GuardThreads : GuardStep(t)

GuardSpec == Init /\ [][GuardNext]_vars

\* ------------------------------------------------------------------ C30
\* the nodes of a set in strictly increasing lock_id order
RECURSIVE Ascending(_)
Ascending(S) ==
  IF S = {} THEN <<>>
  ELSE LET m == CHOOSE n \in S : \A o \in S : lock_id(n) <= lock_id(o)
       IN <<m>> \o Ascending(S \ {m})

\* C30: OrderedLockGuard, constructed from any vector of nodes (repeats and
\* any order allowed), takes a shared lock on each distinct node exactly
\* once, in strictly increasing lock_id order; it holds them all until it is
\* destroyed, and then all are released.
C30_GuardLocksOnceInOrder ==
  \A t \in GuardThreads :
    /\ pc[t] \in {"g_guard", "g_held"} =>
         /\ Len(loc[t].locks_) <= Cardinality(Elems(loc[t].nodes))
         /\ loc[t].locks_
              = SubSeq(Ascending(Elems(loc[t].nodes)), 1, Len(loc[t].locks_))
         /\ HeldShared(t) = Elems(loc[t].locks_)
    /\ pc[t] = "g_held" => HeldShared(t) = Elems(loc[t].nodes)
    /\ pc[t] = "idle" => HeldShared(t) = {}

\* a guard made from a vector with a repeat and out of order is held, while
\* another thread's guard is part-way through taking its locks
C30_Witness ==
  \E t \in GuardThreads :
    /\ pc[t] = "g_held"
    /\ Len(loc[t].nodes) = GuardMaxLen
    /\ Len(loc[t].locks_) = 2
    /\ lock_id(loc[t].nodes[1]) > lock_id(loc[t].nodes[2])
    /\ \E u \in GuardThreads \ {t} : pc[u] = "g_guard" /\ loc[u].locks_ # <<>>

\* ============================================= the locks of insert's descent
\* ------------------------------------------------------------------ C31
HeldExclusive(t) == {n \in Nodes : rw[n].ex = t}

InInsert(t) ==
  pc[t] \in {"i_lock_root", "i_loop", "i_lock_next", "i_unlock_x",
             "i_upgrade", "i_dup_upgrade", "i_unique", "i_dup_unique",
             "i_attach", "i_dup_write", "i_fixup"}

\* the while loop of insert, with lock_x held
InDescent(t) == pc[t] \in {"i_loop", "i_lock_next", "i_unlock_x"}

\* what an inserting thread holds at each point of insert
InsertHolds(t) ==
  /\ Cardinality(HeldNodes(t)) <= 2
  /\ Cardinality(HeldExclusive(t)) <= 1
  /\ pc[t] = "i_lock_root" => HeldNodes(t) = {}
  /\ pc[t] \in {"i_loop", "i_lock_next", "i_upgrade", "i_dup_upgrade"} =>
       HeldShared(t) = {loc[t].x} /\ HeldExclusive(t) = {}
  /\ pc[t] = "i_unlock_x" =>
       HeldShared(t) = {loc[t].x, loc[t].next} /\ HeldExclusive(t) = {}
  /\ pc[t] \in {"i_unique", "i_dup_unique"} => HeldNodes(t) = {}
  /\ pc[t] \in {"i_attach", "i_dup_write", "i_fixup"} =>
       HeldExclusive(t) = {loc[t].x} /\ HeldShared(t) = {}

\* lock_x.shared.unlock() in the loop happens with next's shared lock held,
\* and keeps it
ChildBeforeRelease ==
  \A t \in Writers :
    (InDescent(t) /\ HeldShared(t) # HeldShared(t)') =>
      \/ pc[t] = "i_lock_next" /\ HeldShared(t)' = HeldShared(t) \cup {loc[t].next}
      \/ /\ pc[t] = "i_unlock_x"
         /\ loc[t].next \in HeldShared(t)
         /\ HeldShared(t)' = {loc[t].next}

\* C31: during insert's descent the thread holds at most two per-node locks,
\* takes the child's shared lock before it releases the current node's, holds
\* every lock in shared mode until the descent ends, and holds at most one
\* lock in exclusive mode, the one upgrade() obtained.
C31_InsertLockCoupling ==
  /\ [](\A t \in Writers : InInsert(t) => InsertHolds(t))
  /\ [][ChildBeforeRelease]_vars

\* an insert holds the shared locks of a node and of its real child, about to
\* release the node's, while a lookup holds the child's too
C31_Witness ==
  \E t \in Writers :
    /\ pc[t] = "i_unlock_x"
    /\ loc[t].next # NIL
    /\ loc[t].x # loc[t].next
    /\ HeldShared(t) = {loc[t].x, loc[t].next}
    /\ \E r \in Readers : r \in rw[loc[t].next].sh

\* ============================================================ the stress test
\* rbtree_stress_test.cpp: each writer thread applies an operation to the
\* tree and then to the ReferenceMap, which here is the variable ref.  Writers
\* hold writers_mutex from the first to the last statement of insert and
\* erase, so each call on the tree is one step; the ReferenceMap call that
\* follows takes its own mutex and is another step.  StressMaxKey is
\* key_range.
StressMaxKey == 2

StressKeys == 1..StressMaxKey

\* tree.insert(key, val);
StressTreeInsert(t, k, v) ==
  /\ pc[t] = "idle"
  /\ tree' = insert(tree, k, v)
  /\ SetLoc(t, [Loc0 EXCEPT !.k = k, !.v = v])
  /\ Goto(t, "s_ref_insert")
  /\ UNCHANGED <<rw, writers_mutex, ref, ret>>

\* reference.insert(key, val);
StressRefInsert(t) ==
  /\ pc[t] = "s_ref_insert"
  /\ ref' = [ref EXCEPT ![loc[t].k] = Some(loc[t].v)]
  /\ SetLoc(t, Loc0)
  /\ Goto(t, "idle")
  /\ UNCHANGED <<tree, rw, writers_mutex, ret>>

\* bool success = tree.erase(key);
StressTreeErase(t, k) ==
  /\ pc[t] = "idle"
  /\ tree' = erase(tree, k).T
  /\ SetLoc(t, [Loc0 EXCEPT !.k = k])
  /\ Goto(t, "s_ref_erase")
  /\ UNCHANGED <<rw, writers_mutex, ref, ret>>

\* reference.erase(key);
StressRefErase(t) ==
  /\ pc[t] = "s_ref_erase"
  /\ ref' = [ref EXCEPT ![loc[t].k] = nullopt]
  /\ SetLoc(t, Loc0)
  /\ Goto(t, "idle")
  /\ UNCHANGED <<tree, rw, writers_mutex, ret>>

writer_thread_func(t) ==
  \/ \E k \in StressKeys, v \in Vals : StressTreeInsert(t, k, v)
  \/ StressRefInsert(t)
  \/ \E k \in StressKeys : StressTreeErase(t, k)
  \/ StressRefErase(t)

StressNext == \E t \in Writers : writer_thread_func(t)

StressSpec == Init /\ [][StressNext]_vars

\* ReferenceMap::compare_with_tree
compare_with_tree(T) ==
  \A k \in SeqKeys : ref[k] # nullopt => lookup(T, k) = ref[k]

\* every writer thread is between two operations, where it stops when
\* stop_flag is set
Joined == \A t \in Writers : pc[t] = "idle"

\* ------------------------------------------------------------------ C32
\* C32: in the stress test, after all writer threads have joined, every key
\* of the ReferenceMap is found in the tree with the same value
\* (compare_with_tree returns true), whatever the interleaving.
C32_CompareAfterJoin == Joined => compare_with_tree(tree)

\* ------------------------------------------------------------------ C33
\* thread t returns from lookup, insert or erase in this step
Returns(t) == pc[t] \notin {"idle", "v_validate"} /\ pc'[t] = "idle"

HoldsNothing(t) == HeldNodes(t) = {} /\ writers_mutex # t

ReturnReleases ==
  \A t \in Writers \cup Readers :
    Returns(t) => HeldNodes(t)' = {} /\ writers_mutex' # t

AllFree == writers_mutex = NoThread /\ \A n \in Nodes : rw[n] = Unlocked

\* C33: no lock is leaked: when lookup, insert or erase returns, on every
\* return path, the calling thread holds no per-node lock and not the writer
\* mutex; whenever no operation is in progress every per-node lock and the
\* writer mutex are free.
C33_NoLockLeaked ==
  /\ []((\A t \in Threads : pc[t] = "idle") => AllFree)
  /\ [](\A t \in Writers \cup Readers : pc[t] = "idle" => HoldsNothing(t))
  /\ [][ReturnReleases]_vars

\* inserts and erases have changed the set of keys, lookups have run, and
\* every thread is between calls
C33_Witness ==
  /\ \A t \in Threads : pc[t] = "idle"
  /\ Present \notin {{}, {1, 2, 3}}
  /\ Cardinality(Present) = 2
  /\ AllFree

\* ======================================= locks requested while already held
\* The ordered lookup of lock_based_rb_tree.cpp together with the validator
\* thread of epoch_based_rb_tree.cpp's main, which locks the coarse tree's
\* global_rw_lock through get_lock() and then calls validate(), whose first
\* statement locks global_rw_lock in shared mode.
\*
\* pc values: cv_validate (lock taken through get_lock(), validate() called)

\* the coarse tree's global_rw_lock, as the validator holds it
coarse_rw_lock ==
  [sh |-> {t \in {Validator} : pc[t] = "cv_validate"}, ex |-> NoThread]

\* std::shared_lock<std::shared_mutex> lock(tree.get_lock());
CoarseGetLock(t) ==
  /\ pc[t] = "idle"
  /\ coarse_rw_lock.ex = NoThread
  /\ Goto(t, "cv_validate")
  /\ UNCHANGED <<tree, rw, writers_mutex, loc, ref, ret>>

\* assert(tree.validate()): read_lock(global_rw_lock) by a thread that owns
\* the mutex already, which std::shared_mutex leaves undefined: the lock is
\* granted again and both are released on the way out, or the thread waits
\* for ever
CoarseValidate(t) ==
  /\ pc[t] = "cv_validate"
  /\ \/ Goto(t, "idle")
     \/ Goto(t, "hung")
  /\ UNCHANGED <<tree, rw, writers_mutex, loc, ref, ret>>

RelockNext ==
  \/ OrdNext
  \/ CoarseGetLock(Validator)
  \/ CoarseValidate(Validator)

RelockSpec == Init /\ [][RelockNext]_vars

\* ------------------------------------------------------------------ C34
\* the thread's next step is validate()'s read_lock(global_rw_lock)
CoarseRequested(t) == pc[t] = "cv_validate"

\* C34: no thread ever requests a reader/writer lock that it already holds:
\* not a per-node lock in the ordered lookup, its reverse-order branch
\* included, and not the tree-wide lock in the coarse tree's validator.
C34_NoLockRequestedTwice ==
  /\ \A t \in OrdReaders : Requested(t) \cap HeldNodes(t) = {}
  /\ \A t \in {Validator} : CoarseRequested(t) => t \notin coarse_rw_lock.sh

\* ------------------------------------------------------------------ C35
\* between upgrade()'s shared.unlock() and its unique.lock()
InUpgradeWindow(t) == pc[t] \in {"i_unique", "i_dup_unique"}

\* where a descent for t's key ends in the tree as it is now
DescentNow(t) == descend(tree, tree.root, NIL, loc[t].k)

PositionStillRight(t) ==
  /\ pc[t] \in {"i_unique", "i_attach"} =>
       /\ ~DescentNow(t).dup
       /\ loc[t].x = NIL
       /\ loc[t].y = DescentNow(t).y
  /\ pc[t] \in {"i_dup_unique", "i_dup_write"} =>
       /\ DescentNow(t).dup
       /\ loc[t].x = DescentNow(t).x
       /\ tree.key[loc[t].x] = loc[t].k

\* C35: between upgrade()'s release of the shared lock and its acquisition
\* of the exclusive lock no field of any node and not root changes, since
\* only the holder of writers_mutex writes the tree; the attach position or
\* the duplicate node that the descent found is still the right one when the
\* exclusive lock is obtained.
C35_UpgradeWindowStable ==
  /\ [][(\E t \in Writers : InUpgradeWindow(t)) => tree' = tree]_vars
  /\ [](\A t \in Writers : InUpgradeWindow(t) => writers_mutex = t)
  /\ [](\A t \in Writers : PositionStillRight(t))

\* an insert is inside upgrade() below a real node, a lookup has taken the
\* shared lock the insert gave up, and the other writer has returned from a
\* call of its own before
C35_Witness ==
  \E t \in Writers :
    /\ pc[t] = "i_unique"
    /\ loc[t].y # NIL
    /\ \E r \in Readers : r \in rw[loc[t].x].sh
    /\ Present \notin {{}, {1, 2, 3}}

\* ------------------------------------------------------------------ C36
\* erase(k) at its call of delete_fixup(x): z has been unlinked and freed
FixupEntry(T, z) ==
  [T |-> FreeSlot(splice(T, z).T, z), x |-> splice(T, z).x,
   runs |-> splice(T, z).y_original = BLACK]

\* x hangs in the tree: it is the root, or the parent field of x names a
\* live node of the tree that has x as a child
Hangs(T, x) ==
  \/ x = T.root
  \/ /\ T.parent[x] \in Nodes \ {NIL}
     /\ T.alive[T.parent[x]]
     /\ T.parent[x] \in Reachable(T)
     /\ x \in {T.left[T.parent[x]], T.right[T.parent[x]]}

\* no way leads from the tree or from x to the freed node
Unlinked(T, x, z) ==
  /\ ~T.alive[z]
  /\ x # z
  /\ T.root # z
  /\ x # T.root => T.parent[x] # z
  /\ \A n \in Reachable(T) :
       T.parent[n] # z /\ T.left[n] # z /\ T.right[n] # z

\* the same at the start of every iteration of delete_fixup's loop, and the
\* freed slot is as the free left it when the loop ends
RECURSIVE FixupAvoids(_, _, _)
FixupAvoids(T, x, z) ==
  /\ Hangs(T, x)
  /\ Unlinked(T, x, z)
  /\ IF delete_fixup_cond(T, x)
     THEN FixupAvoids(delete_fixup_iter(T, x).T, delete_fixup_iter(T, x).x, z)
     ELSE delete_fixup_end(T, x) = FreeSlot(delete_fixup_end(T, x), z)

\* the node below which erase has taken a node out: z's parent, or the
\* successor y when it is z's child, or the successor's parent
HoleParent(T, z) ==
  IF T.left[z] = NIL \/ T.right[z] = NIL THEN T.parent[z]
  ELSE IF T.parent[minimum(T, T.right[z])] = z THEN minimum(T, T.right[z])
  ELSE T.parent[minimum(T, T.right[z])]

EraseAvoidsFreed(T, z) ==
  (z # NIL /\ FixupEntry(T, z).runs) =>
     /\ FixupEntry(T, z).T.parent[FixupEntry(T, z).x] = HoleParent(T, z)
     /\ FixupAvoids(FixupEntry(T, z).T, FixupEntry(T, z).x, z)

\* C36: erase frees the target node before it runs delete_fixup, and nothing
\* executed after the free reads or writes the freed node: at entry to
\* delete_fixup(x), x is the root or x->parent is a live node with x in one
\* of its child slots, also when x is the sentinel.
C36_FixupAfterFree ==
  \A k \in SeqKeys : EraseAvoidsFreed(tree, erase_search(tree, tree.root, k))

\* an erase has just run delete_fixup on the sentinel (its parent field set by
\* the erase) and the next one will run it with x the sentinel below the
\* successor of a node with two children
C36_Witness ==
  /\ ret.op = "erase" /\ ret.b
  /\ \E k \in SeqKeys :
       /\ erase_search(tree, tree.root, k) # NIL
       /\ tree.left[erase_search(tree, tree.root, k)] # NIL
       /\ tree.right[erase_search(tree, tree.root, k)] # NIL
       /\ FixupEntry(tree, erase_search(tree, tree.root, k)).runs
       /\ FixupEntry(tree, erase_search(tree, tree.root, k)).x = NIL
       /\ delete_fixup_cond(FixupEntry(tree, erase_search(tree, tree.root, k)).T, NIL)

\* ------------------------------------------------------------------ C37
\* from upgrade()'s unique.lock() to insert's return, when a key is attached
Attaching(t) == pc[t] \in {"i_attach", "i_fixup"}

\* lookup executes return std::nullopt in this step.  The statement is
\* reached only when n is the sentinel, and n becomes the sentinel only after
\* lock_child (or lock_cur, for an empty tree) has locked the sentinel's rw,
\* a mutex that is never destroyed: a lookup that went through a freed node
\* can get there only when that lock can be granted.
ReturnsAbsent(t) ==
  /\ pc'[t] = "idle"
  /\ \/ pc[t] = "l_loop" /\ loc[t].n = NIL
     \/ pc[t] = "ub" /\ CanShare(NIL)

AttachHoldsSentinel(t) ==
  /\ loc[t].x = NIL
  /\ rw[NIL].ex = t
  /\ rw[NIL].sh = {}
  /\ HeldNodes(t) = {NIL}
  /\ \A r \in Readers : ~(pc[r] = "l_loop" /\ loc[r].n = NIL)

PrinterMaxQueue == 2

queue_ == loc[printer_thread_].queue_

\* std::atomic<bool> running_: true from the constructor to stop() or the
\* destructor
running_ == pc[MainThread] \in {"idle", "m_run", "m_notify"}

queue_mutex_free == pc[printer_thread_] \notin {"f_pred", "f_drain"}

SetQueue(q) == loc' = [loc EXCEPT ![printer_thread_].queue_ = q]

printerUnchanged == UNCHANGED <<tree, rw, writers_mutex, ref, ret>>

\* printer::printer: running_(true), printer_thread_ = std::thread(flush)
PrinterConstruct ==
  /\ pc[MainThread] = "idle"
  /\ pc' = [pc EXCEPT ![MainThread] = "m_run", ![printer_thread_] = "f_while"]
  /\ UNCHANGED loc
  /\ printerUnchanged

\* print() up to push()'s block: lock_guard, queue_.push(value)
PrinterPush(msg) ==
  /\ pc[MainThread] = "m_run"
  /\ Len(queue_) < PrinterMaxQueue
  /\ queue_mutex_free
  /\ SetQueue(Append(queue_, msg))
  /\ Goto(MainThread, "m_notify")
  /\ printerUnchanged

\* cv_.notify_one(): a thread blocked in cv_.wait wakes, takes the mutex
\* again and evaluates the predicate; nobody waiting, nothing happens
PrinterNotify ==
  /\ pc[MainThread] = "m_notify"
  /\ pc' = [pc EXCEPT ![MainThread] = "m_run",
                      ![printer_thread_] =
                         IF @ = "f_blocked" THEN "f_pred" ELSE @]
  /\ UNCHANGED loc
  /\ printerUnchanged

\* stop(): running_ = false;
PrinterStop ==
  /\ pc[MainThread] = "m_run"
  /\ Goto(MainThread, "m_stopped")
  /\ UNCHANGED loc
  /\ printerUnchanged

\* ~printer(): running_.store(false);
PrinterDestroy ==
  /\ pc[MainThread] \in {"m_run", "m_stopped"}
  /\ Goto(MainThread, "m_join")
  /\ UNCHANGED loc
  /\ printerUnchanged

\* ~printer(): printer_thread_.join() returns once flush() has returned
PrinterJoin ==
  /\ pc[MainThread] = "m_join"
  /\ pc[printer_thread_] = "f_exit"
  /\ Goto(MainThread, "m_done")
  /\ UNCHANGED loc
  /\ printerUnchanged

\* while (this->running_) { std::unique_lock lock(queue_mutex_); ...
FlushWhile ==
  /\ pc[printer_thread_] = "f_while"
  /\ Goto(printer_thread_, IF running_ THEN "f_pred" ELSE "f_exit")
  /\ UNCHANGED loc
  /\ printerUnchanged

\* cv_.wait(lock, pred): while (!pred()) wait(lock);  the predicate is
\* evaluated with the mutex held; wait(lock) releases it and blocks
FlushWaitPred ==
  /\ pc[printer_thread_] = "f_pred"
  /\ Goto(printer_thread_,
          IF queue_ # <<>> \/ ~running_ THEN "f_drain" ELSE "f_blocked")
  /\ UNCHANGED loc
  /\ printerUnchanged

\* cv_.wait(lock) may return without a notification
FlushSpuriousWakeup ==
  /\ pc[printer_thread_] = "f_blocked"
  /\ Goto(printer_thread_, "f_pred")
  /\ UNCHANGED loc
  /\ printerUnchanged

\* while (!queue_.empty()) { println(front); pop(); }  and the end of the
\* loop body, where lock is released
FlushDrain ==
  /\ pc[printer_thread_] = "f_drain"
  /\ SetQueue(<<>>)
  /\ Goto(printer_thread_, "f_while")
  /\ printerUnchanged

\* the worker's steps that the scheduler makes happen
FlushRun == FlushWhile \/ FlushWaitPred \/ FlushDrain

\* the owner's steps that follow without a decision of the program
OwnerRun == PrinterNotify \/ PrinterJoin

PrinterNext ==
  \/ PrinterConstruct
  \/ \E msg \in Vals : PrinterPush(msg)
  \/ PrinterNotify
  \/ PrinterStop
  \/ PrinterDestroy
  \/ PrinterJoin
  \/ FlushWhile
  \/ FlushWaitPred
  \/ FlushSpuriousWakeup
  \/ FlushDrain

\* Every thread that can run does run; a wait on the condition variable ends
\* for certain only when it is notified.
PrinterSpec ==
  /\ Init
  /\ [][PrinterNext]_vars
  /\ WF_vars(FlushRun)
  /\ WF_vars(OwnerRun)

\* ------------------------------------------------------------------ C38
\* C38: util::printer shuts down: once the destructor or stop() has set
\* running_ to false, the worker running flush() eventually leaves its loop,
\* and the destructor's join returns, in every interleaving.
C38_PrinterShutsDown ==
  /\ (pc[printer_thread_] # "idle" /\ ~running_) ~> (pc[printer_thread_] = "f_exit")
  /\ (pc[MainThread] = "m_join") ~> (pc[MainThread] = "m_done")

====
